---- MODULE Spec2Model ----
(***************************************************************************)
(* A model of yecs (yozhijk/yecs): the World (entity table, component      *)
(* storages, systems and the task graph), the DenseComponentStorage and    *)
(* the execution of one simulation step.                                   *)
(*                                                                         *)
(* SpecStorage  one DenseComponentStorage<T> used on its own: adds, reads, *)
(*          writes through the returned reference, removes.                *)
(* Spec     the entity table and the component storages of one World,      *)
(*          driven by a client that calls the World and the storages.      *)
(* SpecRun  system registration, Precede, Reset and World::Run() with the  *)
(*          task graph executed by the worker threads.                     *)
(***************************************************************************)
EXTENDS Integers, Sequences, FiniteSets, TLC

(***************************************************************************)
(* Bounds of the model.                                                    *)
(***************************************************************************)
\* CreateEntity is not called while this many entities are live.
MaxLive == 2
\* No component is added to the storage of SpecStorage while it holds this many.
MaxStored == 3
\* No component is added while the storages of the World hold this many in all.
MaxComponents == 2
\* No system is registered while the task graph holds this many task nodes.
MaxTasks == 3
\* No new edge is declared while the task graph holds this many edges.
MaxEdges == 2
\* World::Run() is not called again after this many calls.
MaxRuns == 1
\* CreateEntity is not called in SpecTable when it would make the table
\* larger than this many increments.
MaxIncrements == 2
\* The snapshots SpecFilter starts from hold ids below this.
MaxSnapshot == 3

(***************************************************************************)
(* Program constants.                                                      *)
(***************************************************************************)
kEntitySizeIncrement == 128
\* ~0u, the all-ones Entity (uint32_t); written as the same bits read as a
\* 32-bit signed integer. No slot of a table has this index.
kInvalidEntity == -1
\* The value of a value-initialised component, T{} of emplace_back().
DefaultValue == 0

ComponentTypes == {"Position", "Velocity"}
\* Values a client writes through the reference GetComponent returns.
Values == {DefaultValue, 1}
\* Entity ids a client passes in: ids CreateEntity hands out (0 first, then
\* the highest dead slot) and kEntitySizeIncrement, an id no table of one
\* increment holds.
EntityIds == {0, kEntitySizeIncrement - 2, kEntitySizeIncrement - 1, kEntitySizeIncrement}

SystemTypes == {"A", "B", "C"}
\* Addresses make_unique can return for a system object.
Addresses == 1 .. MaxTasks

\* The client threads of SpecEntities, and the owner of a free mutex.
Threads == {1, 2}
NoThread == 0

NoType == "-"
NoEntity == kInvalidEntity

VARIABLES
    storage,      \* a DenseComponentStorage<T> used on its own
    entities_,    \* World::entities_, vector<bool>: its size() and the indices of its true bits
    components_,  \* World::components_: registered type -> DenseComponentStorage
    crashed,      \* the process was terminated (failed assert, invalid access)
    call,         \* the last call made by the client and how it ended
    trip,         \* the AddComponent<T>(e) just made, and whether the next call undid it
    systems_,     \* World::systems_: registered system type -> SystemInvoke
    taskflow_,    \* World::taskflow_: the task nodes and the edges between them
    executor_,    \* World::executor_: the step in flight and the state of its tasks
    history,      \* what was declared and how often each registered system was run
    threads,      \* per client thread: where it is in the call it makes
    entity_mutex_,     \* World::entity_mutex_: the thread that holds it
    component_mutex_,  \* World::component_mutex_: the thread that holds it
    system_mutex_      \* World::system_mutex_: the thread that holds it

schedVars == <<systems_, taskflow_, executor_, history>>

lockVars == <<threads, entity_mutex_, component_mutex_, system_mutex_>>

vars == <<storage, entities_, components_, crashed, call, trip,
          systems_, taskflow_, executor_, history,
          threads, entity_mutex_, component_mutex_, system_mutex_>>

(***************************************************************************)
(* Helpers on maps (std::unordered_map) and vectors.                       *)
(***************************************************************************)
EmptyMap == [k \in {} |-> 0]

MapPut(m, k, v) == [x \in (DOMAIN m) \cup {k} |-> IF x = k THEN v ELSE m[x]]

MapErase(m, k) == [x \in (DOMAIN m) \ {k} |-> m[x]]

\* unordered_map::operator[]: the entry is inserted, value-initialised, when absent.
MapIndex(m, k) == IF k \in DOMAIN m THEN m ELSE MapPut(m, k, 0)

\* std::swap(v[i], v[j]) on 0-based positions.
SwapAt(v, i, j) == [v EXCEPT ![i + 1] = v[j + 1], ![j + 1] = v[i + 1]]

(***************************************************************************)
(* DenseComponentStorage<T>.                                               *)
(***************************************************************************)
EmptyStorage == [component_index_ |-> EmptyMap, components_ |-> <<>>]

size(s) == Len(s.components_)

HasComponent(s, entity) == entity \in DOMAIN s.component_index_

\* operator[](index): the component at a 0-based position.
At(s, index) == s.components_[index + 1]

\* Mutant: AddComponent without the HasComponent check.
DenseAddComponent_NoCheck(s, entity) ==
    [st |-> [component_index_ |-> MapPut(s.component_index_, entity, size(s)),
             components_ |-> Append(s.components_, DefaultValue)],
     res |-> "ok"]

\* Mutant: AddComponent that appends the component and records no index.
DenseAddComponent_NoIndex(s, entity) ==
    IF HasComponent(s, entity)
    THEN [st |-> s, res |-> "runtime_error"]
    ELSE [st |-> [s EXCEPT !.components_ = Append(s.components_, DefaultValue)],
          res |-> "ok"]

DenseAddComponent(s, entity) ==
    IF HasComponent(s, entity)
    THEN [st |-> s, res |-> "runtime_error"]
    ELSE [st |-> [component_index_ |-> MapPut(s.component_index_, entity, size(s)),
                  components_ |-> Append(s.components_, DefaultValue)],
          res |-> "ok"]

\* Mutant: GetComponent without the HasComponent check.
DenseGetComponent_NoCheck(s, entity) ==
    LET ci == MapIndex(s.component_index_, entity)
    IN [st |-> [s EXCEPT !.component_index_ = ci], res |-> "ok", index |-> ci[entity]]

\* The non-const GetComponent: the index is read with operator[] of the map.
DenseGetComponent(s, entity) ==
    IF ~HasComponent(s, entity)
    THEN [st |-> s, res |-> "runtime_error", index |-> -1]
    ELSE LET ci == MapIndex(s.component_index_, entity)
         IN [st |-> [s EXCEPT !.component_index_ = ci], res |-> "ok", index |-> ci[entity]]

\* The loop of RemoveComponent: the first entry, in the iteration order of the
\* unordered_map (any order), whose index is last_index is rewritten to index.
RemapLast(ci, last_index, index) ==
    LET hits == {k \in DOMAIN ci : ci[k] = last_index}
    IN IF hits = {} THEN {ci} ELSE {[ci EXCEPT ![k] = index] : k \in hits}

\* Mutant: RemoveComponent that erases the slot and moves every later
\* component one position to the front.
DenseRemoveComponent_Shift(s, entity) ==
    IF ~HasComponent(s, entity)
    THEN {[st |-> s, res |-> "runtime_error"]}
    ELSE LET n == size(s)
             index == s.component_index_[entity]
             ci == MapErase(s.component_index_, entity)
         IN {[st |-> [component_index_ |->
                          [k \in DOMAIN ci |-> IF ci[k] > index THEN ci[k] - 1 ELSE ci[k]],
                      components_ |->
                          SubSeq(s.components_, 1, index) \o
                              SubSeq(s.components_, index + 2, n)],
              res |-> "ok"]}

\* Mutant: RemoveComponent that swaps and shrinks without rewriting the index
\* of the entity that owned the last slot.
DenseRemoveComponent_NoRemap(s, entity) ==
    IF ~HasComponent(s, entity)
    THEN {[st |-> s, res |-> "runtime_error"]}
    ELSE LET n == size(s)
             index == s.component_index_[entity]
             swapped == IF n > 1 THEN SwapAt(s.components_, index, n - 1)
                        ELSE s.components_
         IN {[st |-> [component_index_ |-> MapErase(s.component_index_, entity),
                      components_ |-> SubSeq(swapped, 1, n - 1)],
              res |-> "ok"]}

\* Mutant: RemoveComponent that rewrites the index and shrinks without moving
\* the last component into the freed slot.
DenseRemoveComponent_NoSwap(s, entity) ==
    IF ~HasComponent(s, entity)
    THEN {[st |-> s, res |-> "runtime_error"]}
    ELSE LET n == size(s)
             index == s.component_index_[entity]
             remapped == IF n > 1 THEN RemapLast(s.component_index_, n - 1, index)
                         ELSE {s.component_index_}
         IN {[st |-> [component_index_ |-> MapErase(ci, entity),
                      components_ |-> SubSeq(s.components_, 1, n - 1)],
              res |-> "ok"] : ci \in remapped}

\* Mutant: RemoveComponent that erases the index entry and keeps the vector's size.
DenseRemoveComponent_NoResize(s, entity) ==
    IF ~HasComponent(s, entity)
    THEN {[st |-> s, res |-> "runtime_error"]}
    ELSE LET n == size(s)
             index == s.component_index_[entity]
             swapped ==
                 IF n > 1
                 THEN {[component_index_ |-> ci,
                        components_ |-> SwapAt(s.components_, index, n - 1)] :
                           ci \in RemapLast(s.component_index_, n - 1, index)}
                 ELSE {s}
         IN {[st |-> [x EXCEPT !.component_index_ = MapErase(@, entity)],
              res |-> "ok"] : x \in swapped}

\* The outcomes of RemoveComponent (one per iteration order that differs).
DenseRemoveComponent(s, entity) ==
    IF ~HasComponent(s, entity)
    THEN {[st |-> s, res |-> "runtime_error"]}
    ELSE LET n == size(s)
             last_index == n - 1
             index == s.component_index_[entity]
             swapped ==
                 IF n > 1
                 THEN {[component_index_ |-> ci,
                        components_ |-> SwapAt(s.components_, index, last_index)] :
                           ci \in RemapLast(s.component_index_, last_index, index)}
                 ELSE {s}
         IN {[st |-> [component_index_ |-> MapErase(x.component_index_, entity),
                      components_ |-> SubSeq(x.components_, 1, n - 1)],
              res |-> "ok"] : x \in swapped}

(***************************************************************************)
(* World: entities and components.                                         *)
(***************************************************************************)
\* A vector<bool> is its size, the set of the indices whose bit is true and
\* the number of bits of the buffer it owns (none before the first resize).
EmptyTable == [size |-> 0, bits |-> {}, capacity |-> 0]

\* entities_[i] of an index inside the table.
Bit(tbl, i) == i \in tbl.bits

SetBit(tbl, i, b) == [tbl EXCEPT !.bits = IF b THEN @ \cup {i} ELSE @ \ {i}]

\* resize(n) to a larger size, then fill of the new elements with false. The
\* buffer is reallocated when it is smaller than n bits.
Grow(tbl, n) == [tbl EXCEPT !.size = n, !.capacity = IF @ < n THEN n ELSE @]

\* entities_.clear(): no element is left, the buffer is kept.
Clear(tbl) == [tbl EXCEPT !.size = 0, !.bits = {}]

Live(tbl) == tbl.bits

IsLive(e) == e < entities_.size /\ Bit(entities_, e)

\* The scan of CreateEntity over the slots lo .. hi - 1 in ascending order,
\* id being the slot found before lo: the loop has no break, so it ends on
\* the last dead slot. The range is scanned as its lower half followed by
\* its upper half.
RECURSIVE ScanRange(_, _, _, _)
ScanRange(tbl, lo, hi, id) ==
    IF lo >= hi THEN id
    ELSE IF hi = lo + 1 THEN (IF ~Bit(tbl, lo) THEN lo ELSE id)
    ELSE LET mid == (lo + hi) \div 2
             found == ScanRange(tbl, lo, mid, id)
         IN IF found >= kInvalidEntity THEN ScanRange(tbl, mid, hi, found) ELSE found

\* The scan from slot i to the end of the table.
ScanDead(tbl, i, id) == ScanRange(tbl, i, tbl.size, id)

\* EntityQuery::operator(): the slots lo .. hi - 1 whose bit is set, pushed
\* back in ascending order (the range as its lower half, then its upper half).
RECURSIVE QueryRange(_, _, _)
QueryRange(tbl, lo, hi) ==
    IF lo >= hi THEN <<>>
    ELSE IF hi = lo + 1 THEN (IF Bit(tbl, lo) THEN <<lo>> ELSE <<>>)
    ELSE LET mid == (lo + hi) \div 2
         IN QueryRange(tbl, lo, mid) \o QueryRange(tbl, mid, hi)

\* Mutant: a query whose loop starts at slot 1.
EntityQuery_FromOne(tbl) == QueryRange(tbl, 1, tbl.size)

\* The snapshot an entity query takes of the table.
EntityQuery(tbl) == QueryRange(tbl, 0, tbl.size)

\* Mutant: CreateEntity that adds one slot at the end when no slot is dead.
CreateEntityResult_GrowByOne(tbl) ==
    LET scan == ScanDead(tbl, 0, kInvalidEntity)
        old_size == tbl.size
        id == IF scan = kInvalidEntity THEN old_size ELSE scan
        grown == IF scan = kInvalidEntity THEN Grow(tbl, old_size + 1) ELSE tbl
    IN [id |-> id, entities |-> SetBit(grown, id, TRUE)]

CreateEntityResult(tbl) ==
    LET scan == ScanDead(tbl, 0, kInvalidEntity)
        old_size == tbl.size
        id == IF scan = kInvalidEntity THEN old_size ELSE scan
        grown == IF scan = kInvalidEntity
                 THEN Grow(tbl, old_size + kEntitySizeIncrement)
                 ELSE tbl
    IN [id |-> id, entities |-> SetBit(grown, id, TRUE)]

TotalComponents ==
    LET types == DOMAIN components_
        RECURSIVE Sum(_)
        Sum(S) == IF S = {} THEN 0
                  ELSE LET t == CHOOSE x \in S : TRUE
                       IN size(components_[t]) + Sum(S \ {t})
    IN Sum(types)

\* A call and how it ended; size0 and index are the size of the storage it
\* addressed and the index the entity had there, both before the call.
Call(op, type, entity, result, size0, index) ==
    [op |-> op, type |-> type, entity |-> entity, result |-> result,
     size0 |-> size0, index |-> index]

\* A call of Precede<S0, S1>() and how it ended.
PrecedeCall(S0, S1, result) ==
    [op |-> "Precede", type |-> S0, type1 |-> S1, entity |-> NoEntity,
     result |-> result, size0 |-> 0, index |-> -1]

IndexOf(s, entity) ==
    IF HasComponent(s, entity) THEN s.component_index_[entity] ELSE -1

NoTrip == [type |-> NoType, entity |-> NoEntity, size0 |-> 0, undone |-> FALSE]

\* A successful AddComponent<T>(e) of the World opens a round trip; the call
\* right after it closes it when it is RemoveComponent(e) on T's storage or
\* DestroyEntity(e) and returns.
NextTrip(c) ==
    IF c.op = "AddComponent" /\ c.result = "ok"
    THEN [type |-> c.type, entity |-> c.entity, size0 |-> c.size0, undone |-> FALSE]
    ELSE IF /\ c.result = "ok"
            /\ trip # NoTrip
            /\ ~trip.undone
            /\ trip.entity = c.entity
            /\ \/ c.op = "RemoveComponent" /\ c.type = trip.type
               \/ c.op = "DestroyEntity"
         THEN [trip EXCEPT !.undone = TRUE]
         ELSE NoTrip

Returns(c) == call' = c /\ trip' = NextTrip(c)

(***************************************************************************)
(* Client threads and the mutexes of the World.                            *)
(***************************************************************************)
\* A thread between calls, or inside a call: id is the local of CreateEntity,
\* entity the entity argument of the call, owned the ids CreateEntity marked
\* for this thread that no DestroyEntity has cleared, op and type the member
\* function of the storage the thread is in and the component type of that
\* storage, visited the storages the loop of DestroyEntity has been through
\* and removed those of them it removed the entity from, snapshot the
\* entities of the EntitySet the thread holds and taken the ids that were
\* live when the entity query returned it.
IdleThread ==
    [pc |-> "idle", id |-> kInvalidEntity, entity |-> NoEntity, owned |-> {},
     op |-> NoType, type |-> NoType, visited |-> {}, removed |-> {},
     snapshot |-> <<>>, taken |-> {}]

\* Mutant: a lock_guard that does not wait for the mutex.
CanLock_NoWait(mutex) == TRUE

\* std::lock_guard<std::mutex>: the constructor returns once the mutex is free.
CanLock(mutex) == mutex = NoThread

\* The ids the threads of SpecAccess pass in: the entity CreateEntity hands
\* out first.
AccessIds == {0}

(***************************************************************************)
(* World: systems, the task graph and the executor.                        *)
(***************************************************************************)
\* tf::Taskflow: nodes[n] is the System* captured by the lambda of task n,
\* edges the pairs <<n, m>> added by precede (a pair added twice makes m wait
\* for n as it does when added once).
EmptyTaskflow == [nodes |-> <<>>, edges |-> {}]

\* tf::Executor with no topology in flight.
IdleExecutor == [pc |-> "idle", state |-> <<>>, target |-> <<>>]

\* declared: the pairs Precede was given since the last Reset; invoked, steps:
\* per registered system, the calls of its Run and the World::Run() calls that
\* returned since it was registered; runs: the World::Run() calls made;
\* registered: the component and system types whose registration succeeded
\* since the last Reset; ever: those whose registration succeeded at any
\* time, recorded by the specifications that start with tracking set.
NoHistory == [declared |-> {}, invoked |-> EmptyMap, steps |-> EmptyMap, runs |-> 0,
              registered |-> {}, ever |-> {}, tracking |-> FALSE]

\* The registration of type T succeeded.
Registered(h, T) ==
    [h EXCEPT !.registered = @ \cup {T},
              !.ever = IF h.tracking THEN @ \cup {T} ELSE @]

Tasks == 1 .. Len(taskflow_.nodes)

\* The addresses of the system objects systems_ owns.
InUse == {systems_[S].system : S \in DOMAIN systems_}

\* The registered system whose object is at address a, NoType when the
\* memory at a holds no system object.
Occupant(a) ==
    IF a \in InUse THEN CHOOSE S \in DOMAIN systems_ : systems_[S].system = a
    ELSE NoType

\* make_unique<SystemT>: any free address; the free addresses no task has
\* captured differ in name only, so the lowest stands for them.
Allocations ==
    LET free == Addresses \ InUse
        captured == {taskflow_.nodes[n] : n \in Tasks}
        fresh == free \ captured
    IN (free \cap captured) \cup
       (IF fresh = {} THEN {} ELSE {CHOOSE a \in fresh : \A b \in fresh : a <= b})

\* Mutant: an executor that runs one task at a time.
Ready_OneAtATime(n) ==
    /\ executor_.state[n] = "pending"
    /\ \A e \in taskflow_.edges : e[2] = n => executor_.state[e[1]] = "done"
    /\ \A m \in 1 .. Len(executor_.state) : executor_.state[m] # "running"

\* A task is handed to a worker once every task that precedes it is done.
Ready(n) ==
    /\ executor_.state[n] = "pending"
    /\ \A e \in taskflow_.edges : e[2] = n => executor_.state[e[1]] = "done"

\* Mutant: wait_for_all that does not wait.
WaitForAll_NoWait(ex) == TRUE

\* executor_.wait_for_all(): blocks until the topology has run to its end.
WaitForAll(ex) == \A n \in 1 .. Len(ex.state) : ex.state[n] = "done"

Init ==
    /\ storage = EmptyStorage
    /\ entities_ = EmptyTable
    /\ components_ = EmptyMap
    /\ crashed = FALSE
    /\ call = Call("World", NoType, NoEntity, "ok", 0, -1)
    /\ trip = NoTrip
    /\ systems_ = EmptyMap
    /\ taskflow_ = EmptyTaskflow
    /\ executor_ = IdleExecutor
    /\ history = NoHistory
    /\ threads = [t \in Threads |-> IdleThread]
    /\ entity_mutex_ = NoThread
    /\ component_mutex_ = NoThread
    /\ system_mutex_ = NoThread

\* The process ends (a failed assert, an invalid memory access): its objects
\* are gone with it, and no call follows.
Terminate(op, t, e) ==
    /\ crashed' = TRUE
    /\ call' = Call(op, t, e, "crash", 0, -1)
    /\ trip' = NoTrip
    /\ storage' = EmptyStorage
    /\ entities_' = EmptyTable
    /\ components_' = EmptyMap
    /\ systems_' = EmptyMap
    /\ taskflow_' = EmptyTaskflow
    /\ executor_' = IdleExecutor
    /\ history' = [NoHistory EXCEPT !.tracking = history.tracking]
    /\ threads' = [u \in Threads |-> IdleThread]
    /\ entity_mutex_' = NoThread
    /\ component_mutex_' = NoThread
    /\ system_mutex_' = NoThread

(***************************************************************************)
(* A client of one DenseComponentStorage.                                  *)
(***************************************************************************)
Storage_AddComponent(e) ==
    /\ HasComponent(storage, e) \/ size(storage) < MaxStored
    /\ LET r == DenseAddComponent(storage, e)
       IN /\ storage' = r.st
          /\ call' = Call("AddComponent", NoType, e, r.res, size(storage), IndexOf(storage, e))
    /\ UNCHANGED <<entities_, components_, crashed, trip, schedVars, lockVars>>

Storage_GetComponent(e) ==
    /\ LET r == DenseGetComponent(storage, e)
       IN /\ storage' = r.st
          /\ call' = Call("GetComponent", NoType, e, r.res, size(storage), IndexOf(storage, e))
    /\ UNCHANGED <<entities_, components_, crashed, trip, schedVars, lockVars>>

\* The client assigns the component through the reference GetComponent returned.
Storage_WriteComponent(e, v) ==
    /\ LET r == DenseGetComponent(storage, e)
       IN /\ r.res = "ok"
          /\ storage' = [r.st EXCEPT !.components_ = [@ EXCEPT ![r.index + 1] = v]]
          /\ call' = Call("WriteComponent", NoType, e, "ok", size(storage), r.index)
    /\ UNCHANGED <<entities_, components_, crashed, trip, schedVars, lockVars>>

Storage_RemoveComponent(e) ==
    /\ \E r \in DenseRemoveComponent(storage, e) :
          /\ storage' = r.st
          /\ call' = Call("RemoveComponent", NoType, e, r.res, size(storage), IndexOf(storage, e))
    /\ UNCHANGED <<entities_, components_, crashed, trip, schedVars, lockVars>>

NextStorage ==
    \/ \E e \in EntityIds : Storage_AddComponent(e)
    \/ \E e \in EntityIds : Storage_GetComponent(e)
    \/ \E e \in EntityIds, v \in Values : Storage_WriteComponent(e, v)
    \/ \E e \in EntityIds : Storage_RemoveComponent(e)

SpecStorage == Init /\ [][NextStorage]_vars

(***************************************************************************)
(* A client of the World.                                                  *)
(***************************************************************************)
\* Mutant: RegisterComponent that stores a new storage whether or not the
\* type has one.
RegisterComponent_NoCheck(t) ==
    /\ ~crashed
    /\ components_' = MapPut(components_, t, EmptyStorage)
    /\ history' = Registered(history, t)
    /\ Returns(Call("RegisterComponent", t, NoEntity, "ok", 0, -1))
    /\ UNCHANGED <<storage, entities_, crashed, systems_, taskflow_, executor_, lockVars>>

RegisterComponent(t) ==
    /\ ~crashed
    /\ IF t \in DOMAIN components_
       THEN /\ components_' = components_
            /\ history' = history
            /\ Returns(Call("RegisterComponent", t, NoEntity, "runtime_error", 0, -1))
       ELSE /\ components_' = MapPut(components_, t, EmptyStorage)
            /\ history' = Registered(history, t)
            /\ Returns(Call("RegisterComponent", t, NoEntity, "ok", 0, -1))
    /\ UNCHANGED <<storage, entities_, crashed, systems_, taskflow_, executor_, lockVars>>

CreateEntity ==
    /\ ~crashed
    /\ LET r == CreateEntityResult(entities_)
       IN /\ entities_' = r.entities
          /\ Returns(Call("CreateEntity", NoType, r.id, "ok", 0, -1))
    /\ UNCHANGED <<storage, components_, crashed, schedVars, lockVars>>

\* GetComponentStorage: assert(registered); without the assert the map's
\* operator[] yields a null storage and the call through it is invalid.
\* Either way the process ends.
UnregisteredAccess(op, t, e) ==
    /\ t \notin DOMAIN components_
    /\ Terminate(op, t, e)

\* Mutant: AddComponent that adds the component to every registered storage
\* that does not hold the entity.
AddComponent_EveryStorage(t, e) ==
    /\ ~crashed
    /\ \/ UnregisteredAccess("AddComponent", t, e)
       \/ /\ t \in DOMAIN components_
          /\ HasComponent(components_[t], e) \/ TotalComponents < MaxComponents
          /\ LET r == DenseAddComponent(components_[t], e)
             IN /\ components_' = [u \in DOMAIN components_ |->
                                      DenseAddComponent(components_[u], e).st]
                /\ Returns(Call("AddComponent", t, e, r.res, size(components_[t]),
                                IndexOf(components_[t], e)))
          /\ UNCHANGED <<storage, entities_, crashed, schedVars, lockVars>>

AddComponent(t, e) ==
    /\ ~crashed
    /\ \/ UnregisteredAccess("AddComponent", t, e)
       \/ /\ t \in DOMAIN components_
          /\ HasComponent(components_[t], e) \/ TotalComponents < MaxComponents
          /\ LET r == DenseAddComponent(components_[t], e)
             IN /\ components_' = [components_ EXCEPT ![t] = r.st]
                /\ Returns(Call("AddComponent", t, e, r.res, size(components_[t]),
                                IndexOf(components_[t], e)))
          /\ UNCHANGED <<storage, entities_, crashed, schedVars, lockVars>>

GetComponent(t, e) ==
    /\ ~crashed
    /\ \/ UnregisteredAccess("GetComponent", t, e)
       \/ /\ t \in DOMAIN components_
          /\ LET r == DenseGetComponent(components_[t], e)
             IN /\ components_' = [components_ EXCEPT ![t] = r.st]
                /\ Returns(Call("GetComponent", t, e, r.res, size(components_[t]),
                                IndexOf(components_[t], e)))
          /\ UNCHANGED <<storage, entities_, crashed, schedVars, lockVars>>

\* GetNumComponents() const calls the non-const GetComponentStorage: a program
\* that calls it does not build, so no action stands for it.

\* operator[] of the storage is unchecked: an index past the end either
\* yields a reference to what lies behind the vector's elements or ends the
\* process; no element of the storage changes.
GetComponentByIndex(t, i) ==
    /\ ~crashed
    /\ \/ UnregisteredAccess("GetComponentByIndex", t, NoEntity)
       \/ /\ t \in DOMAIN components_
          /\ \/ /\ Returns(Call("GetComponentByIndex", t, NoEntity, "ok",
                                 size(components_[t]), i))
                /\ UNCHANGED <<storage, entities_, components_, crashed, schedVars, lockVars>>
             \/ /\ i >= size(components_[t])
                /\ Terminate("GetComponentByIndex", t, NoEntity)

\* RemoveComponent of the storage a system obtained from ComponentAccess::Write<T>().
RemoveComponent(t, e) ==
    /\ ~crashed
    /\ \/ UnregisteredAccess("RemoveComponent", t, e)
       \/ /\ t \in DOMAIN components_
          /\ \E r \in DenseRemoveComponent(components_[t], e) :
                /\ components_' = [components_ EXCEPT ![t] = r.st]
                /\ Returns(Call("RemoveComponent", t, e, r.res, size(components_[t]),
                                IndexOf(components_[t], e)))
          /\ UNCHANGED <<storage, entities_, crashed, schedVars, lockVars>>

\* Mutant: a loop of DestroyEntity that removes nothing.
PurgeOne_NoRemove(s, e) == {s}

\* The loop of DestroyEntity over components_: each storage holding the entity
\* has it removed, the others are skipped.
PurgeOne(s, e) ==
    IF HasComponent(s, e) THEN {r.st : r \in DenseRemoveComponent(s, e)} ELSE {s}

Purge(cs, e) ==
    LET all == UNION {PurgeOne(cs[t], e) : t \in DOMAIN cs}
    IN {f \in [DOMAIN cs -> all] : \A t \in DOMAIN cs : f[t] \in PurgeOne(cs[t], e)}

\* The number of storages that hold a component of entity e.
Holding(cs, e) == Cardinality({t \in DOMAIN cs : HasComponent(cs[t], e)})

\* A call of DestroyEntity(e) that returned: size0 is the number of storages
\* that held e and live whether e was live, both before the call.
DestroyCall(e) ==
    [op |-> "DestroyEntity", type |-> NoType, entity |-> e, result |-> "ok",
     size0 |-> Holding(components_, e), index |-> -1, live |-> IsLive(e)]

\* The outcomes of entities_[entity] = false, which is unchecked. For an id
\* outside the table the write lands outside the vector's elements: in a
\* vector that owns no buffer it goes through a null pointer and ends the
\* process; in one that owns a buffer (spare capacity kept by clear(), or the
\* memory next to the buffer) it changes no element of the table, or ends
\* the process where the library checks the index or the memory is not there.
DestroyOutcomes(tbl, e) ==
    IF e < tbl.size THEN {"ok"}
    ELSE IF tbl.capacity = 0 THEN {"crash"}
    ELSE {"ok", "crash"}

DestroyEntity(e) ==
    /\ ~crashed
    /\ \E r \in DestroyOutcomes(entities_, e) :
          IF r = "ok"
          THEN /\ \E cs \in Purge(components_, e) : components_' = cs
               /\ entities_' = IF e < entities_.size THEN SetBit(entities_, e, FALSE)
                                ELSE entities_
               /\ Returns(DestroyCall(e))
               /\ UNCHANGED <<storage, crashed, schedVars, lockVars>>
          ELSE Terminate("DestroyEntity", NoType, e)

\* entities_, components_ and systems_ are cleared: the system objects are
\* destroyed and their memory freed. taskflow_ is not touched.
Reset ==
    /\ ~crashed
    /\ executor_.pc = "idle"
    /\ entities_' = Clear(entities_)
    /\ components_' = EmptyMap
    /\ systems_' = EmptyMap
    /\ history' = [history EXCEPT !.declared = {}, !.invoked = EmptyMap, !.steps = EmptyMap,
                                  !.registered = {}]
    /\ Returns(Call("Reset", NoType, NoEntity, "ok", 0, -1))
    /\ UNCHANGED <<storage, crashed, taskflow_, executor_, lockVars>>

Next ==
    \/ \E t \in ComponentTypes : RegisterComponent(t)
    \/ Cardinality(Live(entities_)) < MaxLive /\ CreateEntity
    \/ \E t \in ComponentTypes, e \in EntityIds : AddComponent(t, e)
    \/ \E t \in ComponentTypes, e \in EntityIds : GetComponent(t, e)
    \/ \E t \in ComponentTypes, e \in EntityIds : RemoveComponent(t, e)
    \/ \E t \in ComponentTypes, i \in 0 .. 1 : GetComponentByIndex(t, i)
    \/ \E e \in EntityIds : DestroyEntity(e)
    \/ Reset

Spec == Init /\ [][Next]_vars

(***************************************************************************)
(* A client that creates and destroys entities, starting from an empty     *)
(* table or from a table whose slots were all handed out.                  *)
(***************************************************************************)
\* The table after kEntitySizeIncrement calls of CreateEntity on a new World.
FullTable ==
    [size |-> kEntitySizeIncrement, bits |-> 0 .. kEntitySizeIncrement - 1,
     capacity |-> kEntitySizeIncrement]

InitTable ==
    /\ storage = EmptyStorage
    /\ entities_ \in {EmptyTable, FullTable}
    /\ components_ = EmptyMap
    /\ crashed = FALSE
    /\ call = Call("World", NoType, NoEntity, "ok", 0, -1)
    /\ trip = NoTrip
    /\ systems_ = EmptyMap
    /\ taskflow_ = EmptyTaskflow
    /\ executor_ = IdleExecutor
    /\ history = NoHistory
    /\ threads = [t \in Threads |-> IdleThread]
    /\ entity_mutex_ = NoThread
    /\ component_mutex_ = NoThread
    /\ system_mutex_ = NoThread

NextTable ==
    \/ /\ CreateEntityResult(entities_).entities.size <= MaxIncrements * kEntitySizeIncrement
       /\ CreateEntity
    \/ \E e \in EntityIds : DestroyEntity(e)
    \/ Reset

SpecTable == InitTable /\ [][NextTable]_vars

(***************************************************************************)
(* Threads that create and destroy entities at the same time.              *)
(***************************************************************************)
CreateEntity_Lock(t) ==
    /\ ~crashed
    /\ threads[t].pc = "idle"
    /\ Cardinality(Live(entities_)) < MaxLive
    /\ CanLock(entity_mutex_)
    /\ entity_mutex_' = t
    /\ threads' = [threads EXCEPT ![t].pc = "scan", ![t].id = kInvalidEntity]
    /\ UNCHANGED <<storage, entities_, components_, crashed, call, trip, schedVars,
                   component_mutex_, system_mutex_>>

\* The loop over the table.
CreateEntity_Scan(t) ==
    /\ ~crashed
    /\ threads[t].pc = "scan"
    /\ LET id == ScanDead(entities_, 0, threads[t].id)
       IN threads' = [threads EXCEPT ![t].id = id,
                                     ![t].pc = IF id = kInvalidEntity THEN "grow" ELSE "mark"]
    /\ UNCHANGED <<storage, entities_, components_, crashed, call, trip, schedVars,
                   entity_mutex_, component_mutex_, system_mutex_>>

\* No dead slot was found: the table is resized and the new slots are filled.
CreateEntity_Grow(t) ==
    /\ ~crashed
    /\ threads[t].pc = "grow"
    /\ LET old_size == entities_.size
       IN /\ entities_' = Grow(entities_, old_size + kEntitySizeIncrement)
          /\ threads' = [threads EXCEPT ![t].id = old_size, ![t].pc = "mark"]
    /\ UNCHANGED <<storage, components_, crashed, call, trip, schedVars,
                   entity_mutex_, component_mutex_, system_mutex_>>

\* entities_[id] = true.
CreateEntity_Mark(t) ==
    /\ ~crashed
    /\ threads[t].pc = "mark"
    /\ entities_' = SetBit(entities_, threads[t].id, TRUE)
    /\ threads' = [threads EXCEPT ![t].pc = "return", ![t].owned = @ \cup {threads[t].id}]
    /\ UNCHANGED <<storage, components_, crashed, call, trip, schedVars,
                   entity_mutex_, component_mutex_, system_mutex_>>

\* Mutant: CreateEntity that takes component_mutex_ for a moment, while it
\* holds entity_mutex_, before it returns.
CreateEntity_Return_LockComponents(t) ==
    /\ ~crashed
    /\ threads[t].pc = "return"
    /\ CanLock(component_mutex_)
    /\ entity_mutex_' = NoThread
    /\ threads' = [threads EXCEPT ![t].pc = "idle"]
    /\ Returns(Call("CreateEntity", NoType, threads[t].id, "ok", 0, -1))
    /\ UNCHANGED <<storage, entities_, components_, crashed, schedVars,
                   component_mutex_, system_mutex_>>

\* The builder is returned and the lock_guard releases the mutex.
CreateEntity_Return(t) ==
    /\ ~crashed
    /\ threads[t].pc = "return"
    /\ entity_mutex_' = NoThread
    /\ threads' = [threads EXCEPT ![t].pc = "idle"]
    /\ Returns(Call("CreateEntity", NoType, threads[t].id, "ok", 0, -1))
    /\ UNCHANGED <<storage, entities_, components_, crashed, schedVars,
                   component_mutex_, system_mutex_>>

\* DestroyEntity of an id inside the table.
DestroyEntity_LockComponents(t, e) ==
    /\ ~crashed
    /\ threads[t].pc = "idle"
    /\ e < entities_.size
    /\ CanLock(component_mutex_)
    /\ component_mutex_' = t
    /\ threads' = [threads EXCEPT ![t].pc = "lock_entities", ![t].entity = e]
    /\ UNCHANGED <<storage, entities_, components_, crashed, call, trip, schedVars,
                   entity_mutex_, system_mutex_>>

DestroyEntity_LockEntities(t) ==
    /\ ~crashed
    /\ threads[t].pc = "lock_entities"
    /\ CanLock(entity_mutex_)
    /\ entity_mutex_' = t
    /\ threads' = [threads EXCEPT ![t].pc = "purge"]
    /\ UNCHANGED <<storage, entities_, components_, crashed, call, trip, schedVars,
                   component_mutex_, system_mutex_>>

\* The loop over components_.
DestroyEntity_Purge(t) ==
    /\ ~crashed
    /\ threads[t].pc = "purge"
    /\ \E cs \in Purge(components_, threads[t].entity) : components_' = cs
    /\ threads' = [threads EXCEPT ![t].pc = "clear"]
    /\ UNCHANGED <<storage, entities_, crashed, call, trip, schedVars,
                   entity_mutex_, component_mutex_, system_mutex_>>

\* entities_[entity] = false, then both lock_guards release on return.
DestroyEntity_Clear(t) ==
    /\ ~crashed
    /\ threads[t].pc = "clear"
    /\ entities_' = SetBit(entities_, threads[t].entity, FALSE)
    /\ threads' = [u \in Threads |->
                     [threads[u] EXCEPT !.pc = IF u = t THEN "idle" ELSE @,
                                        !.owned = @ \ {threads[t].entity}]]
    /\ entity_mutex_' = NoThread
    /\ component_mutex_' = NoThread
    /\ Returns(DestroyCall(threads[t].entity))
    /\ UNCHANGED <<storage, components_, crashed, schedVars, system_mutex_>>

NextEntities ==
    \/ \E t \in Threads : CreateEntity_Lock(t)
    \/ \E t \in Threads : CreateEntity_Scan(t)
    \/ \E t \in Threads : CreateEntity_Grow(t)
    \/ \E t \in Threads : CreateEntity_Mark(t)
    \/ \E t \in Threads : CreateEntity_Return(t)
    \/ \E t \in Threads, e \in EntityIds : DestroyEntity_LockComponents(t, e)
    \/ \E t \in Threads : DestroyEntity_LockEntities(t)
    \/ \E t \in Threads : DestroyEntity_Purge(t)
    \/ \E t \in Threads : DestroyEntity_Clear(t)

SpecEntities == Init /\ [][NextEntities]_vars

(***************************************************************************)
(* A client that takes snapshots of the entity table between the calls     *)
(* that create and destroy entities.                                       *)
(***************************************************************************)
\* auto set = entity_query(): the EntitySet owns the vector the loop filled.
Query(t) ==
    /\ ~crashed
    /\ threads' = [threads EXCEPT ![t].snapshot = EntityQuery(entities_),
                                  ![t].taken = Live(entities_)]
    /\ Returns(Call("EntityQuery", NoType, NoEntity, "ok", Len(EntityQuery(entities_)), -1))
    /\ UNCHANGED <<storage, entities_, components_, crashed, schedVars,
                   entity_mutex_, component_mutex_, system_mutex_>>

NextQuery ==
    \/ Cardinality(Live(entities_)) < MaxLive /\ CreateEntity
    \/ \E e \in EntityIds : DestroyEntity(e)
    \/ \E t \in Threads : Query(t)
    \/ Reset

SpecQuery == Init /\ [][NextQuery]_vars

(***************************************************************************)
(* Threads that destroy and create entities while others are in the        *)
(* storages a system got from its ComponentAccess, in GetComponent or in    *)
(* an entity query: none of these takes a mutex.                            *)
(***************************************************************************)
\* The World after RegisterComponent of both types, CreateEntity (id 0) and
\* AddComponent of both types to that entity.
AccessTable == CreateEntityResult(EmptyTable).entities

AccessComponents ==
    [t \in ComponentTypes |-> DenseAddComponent(EmptyStorage, 0).st]

InitAccess ==
    /\ storage = EmptyStorage
    /\ entities_ = AccessTable
    /\ components_ = AccessComponents
    /\ crashed = FALSE
    /\ call = Call("AddComponent", "Velocity", 0, "ok", 0, -1)
    /\ trip = NoTrip
    /\ systems_ = EmptyMap
    /\ taskflow_ = EmptyTaskflow
    /\ executor_ = IdleExecutor
    /\ history = NoHistory
    /\ threads = [t \in Threads |-> IdleThread]
    /\ entity_mutex_ = NoThread
    /\ component_mutex_ = NoThread
    /\ system_mutex_ = NoThread

\* Another thread is inside the storage of type T: in the loop of
\* DestroyEntity, which goes through every storage, or in a member function
\* that changes T's storage.
Racing(t, T) ==
    \E u \in Threads \ {t} :
        \/ threads[u].pc = "purge"
        \/ threads[u].pc = "mutate" /\ threads[u].type = T

\* One iteration of the loop of DestroyEntity over components_, in the order
\* the unordered_map yields: HasComponent, then RemoveComponent. With another
\* thread changing the storage at the same time (a data race) the process
\* may end.
DestroyEntity_PurgeStorage(t, T) ==
    /\ ~crashed
    /\ threads[t].pc = "purge"
    /\ T \in DOMAIN components_ \ threads[t].visited
    /\ \/ LET e == threads[t].entity
              visited == threads[t].visited \cup {T}
              removed == IF HasComponent(components_[T], e)
                         THEN threads[t].removed \cup {T} ELSE threads[t].removed
              last == visited = DOMAIN components_
          IN /\ \E st \in PurgeOne(components_[T], e) :
                    components_' = [components_ EXCEPT ![T] = st]
             /\ threads' = [threads EXCEPT ![t].pc = IF last THEN "clear" ELSE "purge",
                                           ![t].visited = IF last THEN {} ELSE visited,
                                           ![t].removed = IF last THEN {} ELSE removed]
             /\ UNCHANGED <<storage, entities_, crashed, call, trip, schedVars,
                            entity_mutex_, component_mutex_, system_mutex_>>
       \/ /\ \E u \in Threads \ {t} : threads[u].pc = "mutate" /\ threads[u].type = T
          /\ Terminate("DestroyEntity", T, threads[t].entity)

\* World::AddComponent<T>(e): the lock_guard on component_mutex_.
AddComponent_Lock(t, T, e) ==
    /\ ~crashed
    /\ threads[t].pc = "idle"
    /\ T \in DOMAIN components_
    /\ HasComponent(components_[T], e) \/ size(components_[T]) < MaxStored
    /\ CanLock(component_mutex_)
    /\ component_mutex_' = t
    /\ threads' = [threads EXCEPT ![t].pc = "locked_add", ![t].type = T, ![t].entity = e]
    /\ UNCHANGED <<storage, entities_, components_, crashed, call, trip, schedVars,
                   entity_mutex_, system_mutex_>>

\* The AddComponent of the storage, then the lock_guard releases the mutex.
AddComponent_Add(t) ==
    /\ ~crashed
    /\ threads[t].pc = "locked_add"
    /\ LET T == threads[t].type
           e == threads[t].entity
           r == DenseAddComponent(components_[T], e)
       IN \/ /\ components_' = [components_ EXCEPT ![T] = r.st]
             /\ component_mutex_' = NoThread
             /\ threads' = [threads EXCEPT ![t].pc = "idle", ![t].type = NoType,
                                           ![t].entity = NoEntity]
             /\ Returns(Call("AddComponent", T, e, r.res, size(components_[T]),
                             IndexOf(components_[T], e)))
             /\ UNCHANGED <<storage, entities_, crashed, schedVars, entity_mutex_, system_mutex_>>
          \/ /\ \E u \in Threads \ {t} : threads[u].pc = "mutate" /\ threads[u].type = T
             /\ Terminate("AddComponent", T, e)

\* A thread enters a member function of the storage it got from
\* ComponentAccess::Write<T>() or Read<T>(), or World::GetComponent<T>: no
\* mutex is taken. HasComponent and GetComponent read the storage,
\* AddComponent and RemoveComponent change it.
Access_Begin(t, op, T, e) ==
    /\ ~crashed
    /\ threads[t].pc = "idle"
    /\ T \in DOMAIN components_
    /\ op = "AddComponent" =>
          (HasComponent(components_[T], e) \/ size(components_[T]) < MaxStored)
    /\ threads' = [threads EXCEPT
                      ![t].pc = IF op \in {"AddComponent", "RemoveComponent"}
                                THEN "mutate" ELSE "read",
                      ![t].op = op, ![t].type = T, ![t].entity = e]
    /\ UNCHANGED <<storage, entities_, components_, crashed, call, trip, schedVars,
                   entity_mutex_, component_mutex_, system_mutex_>>

\* The storage s after its member function op for entity e.
AccessResults(s, op, e) ==
    IF op = "AddComponent" THEN {DenseAddComponent(s, e).st}
    ELSE IF op = "RemoveComponent" THEN {r.st : r \in DenseRemoveComponent(s, e)}
    ELSE {s}

\* The member function returns (to the Run of a system: the World's client
\* made no call). With another thread inside the same storage at the same
\* time (a data race) the process may end.
Access_End(t) ==
    /\ ~crashed
    /\ threads[t].pc \in {"read", "mutate"}
    /\ LET T == threads[t].type
           e == threads[t].entity
           op == threads[t].op
       IN \/ /\ \E st \in AccessResults(components_[T], op, e) :
                   components_' = [components_ EXCEPT ![T] = st]
             /\ threads' = [threads EXCEPT ![t].pc = "idle", ![t].op = NoType,
                                           ![t].type = NoType, ![t].entity = NoEntity]
             /\ UNCHANGED <<storage, entities_, crashed, call, trip, schedVars,
                            entity_mutex_, component_mutex_, system_mutex_>>
          \/ /\ Racing(t, T)
             /\ Terminate(op, T, e)

\* EntityQuery::operator(): the loop over entities_ starts; no mutex is taken.
Query_Begin(t) ==
    /\ ~crashed
    /\ threads[t].pc = "idle"
    /\ threads' = [threads EXCEPT ![t].pc = "query"]
    /\ UNCHANGED <<storage, entities_, components_, crashed, call, trip, schedVars,
                   entity_mutex_, component_mutex_, system_mutex_>>

\* The loop ends and the snapshot is returned: size0 is its length.
Query_End(t) ==
    /\ ~crashed
    /\ threads[t].pc = "query"
    /\ threads' = [threads EXCEPT ![t].pc = "idle"]
    /\ Returns(Call("EntityQuery", NoType, NoEntity, "ok", Len(EntityQuery(entities_)), -1))
    /\ UNCHANGED <<storage, entities_, components_, crashed, schedVars,
                   entity_mutex_, component_mutex_, system_mutex_>>

\* The thread of the World's client, and the worker thread a system runs on.
ClientThread == 1
WorkerThread == 2

NextAccess ==
    \/ \E e \in AccessIds : DestroyEntity_LockComponents(ClientThread, e)
    \/ DestroyEntity_LockEntities(ClientThread)
    \/ \E T \in ComponentTypes : DestroyEntity_PurgeStorage(ClientThread, T)
    \/ DestroyEntity_Clear(ClientThread)
    \/ \E T \in ComponentTypes, e \in AccessIds : AddComponent_Lock(ClientThread, T, e)
    \/ AddComponent_Add(ClientThread)
    \/ \E T \in ComponentTypes, e \in AccessIds,
          op \in {"HasComponent", "GetComponent", "AddComponent", "RemoveComponent"} :
          Access_Begin(WorkerThread, op, T, e)
    \/ Access_End(WorkerThread)
    \/ Query_Begin(WorkerThread)
    \/ Query_End(WorkerThread)

SpecAccess == InitAccess /\ [][NextAccess]_vars

(***************************************************************************)
(* EntitySet: a client that filters the snapshot it holds.                 *)
(***************************************************************************)
\* The ids of the snapshots SpecFilter starts from.
FilterIds == 0 .. MaxSnapshot - 1

\* std::partition on the elements first .. last - 1 of seq (positions from 1,
\* last one past the end), the predicate being membership in P: first moves
\* up over the elements in P, last moves down over those not in P, the two
\* elements they stop at are swapped, and so on until they meet. new_end is
\* the position the call returns.
RECURSIVE Partition(_, _, _, _)
Partition(seq, first, last, P) ==
    LET first1 == IF \E i \in first .. last - 1 : seq[i] \notin P
                  THEN CHOOSE i \in first .. last - 1 :
                          /\ seq[i] \notin P
                          /\ \A j \in first .. i - 1 : seq[j] \in P
                  ELSE last
        last1 == IF \E i \in first1 + 1 .. last - 1 : seq[i] \in P
                 THEN CHOOSE i \in first1 + 1 .. last - 1 :
                         /\ seq[i] \in P
                         /\ \A j \in i + 1 .. last - 1 : seq[j] \notin P
                 ELSE first1
    IN IF first1 = last \/ last1 = first1
       THEN [seq |-> seq, new_end |-> first1]
       ELSE Partition([seq EXCEPT ![first1] = seq[last1], ![last1] = seq[first1]],
                      first1 + 1, last1, P)

\* Mutant: FilterInPlace that keeps the elements of P in the order they had.
FilterInPlaceEntities_Stable(entities, P) ==
    LET Test(e) == e \in P
    IN SelectSeq(entities, Test)

\* entities_ after FilterInPlace: partition, then resize to the elements
\* before new_end.
FilterInPlaceEntities(entities, P) ==
    LET r == Partition(entities, 1, Len(entities) + 1, P)
    IN SubSeq(r.seq, 1, r.new_end - 1)

\* Mutant: Filter that resizes to one element more.
FilterEntities_OneMore(entities, P) ==
    LET r == Partition(entities, 1, Len(entities) + 1, P)
    IN SubSeq(r.seq, 1, IF r.new_end <= Len(entities) THEN r.new_end ELSE r.new_end - 1)

\* The entities of the EntitySet that Filter(F&&) && returns: partition and
\* resize of its own entities_, which are then moved into the new set.
FilterEntities(entities, P) ==
    LET r == Partition(entities, 1, Len(entities) + 1, P)
    IN SubSeq(r.seq, 1, r.new_end - 1)

\* A call on the EntitySet a thread holds: input its entities before the
\* call, pred the ids the predicate holds for, output the entities of the
\* set the call returns (FilterInPlace returns the set it was called on).
FilterCall(op, input, P, output, result) ==
    [op |-> op, type |-> NoType, entity |-> NoEntity, result |-> result,
     size0 |-> Len(input), index |-> -1, input |-> input, pred |-> P, output |-> output]

\* A client that holds a snapshot a query returned when the ids of S were
\* live, the World having been Reset since.
InitFilter ==
    /\ storage = EmptyStorage
    /\ entities_ = Clear(FullTable)
    /\ components_ = EmptyMap
    /\ crashed = FALSE
    /\ call = Call("Reset", NoType, NoEntity, "ok", 0, -1)
    /\ trip = NoTrip
    /\ systems_ = EmptyMap
    /\ taskflow_ = EmptyTaskflow
    /\ executor_ = IdleExecutor
    /\ history = NoHistory
    /\ \E S \in SUBSET FilterIds :
          threads = [t \in Threads |->
                        IF t = ClientThread
                        THEN [IdleThread EXCEPT !.snapshot = EntityQuery([size |-> MaxSnapshot,
                                                                         bits |-> S,
                                                                         capacity |-> MaxSnapshot]),
                                                !.taken = S]
                        ELSE IdleThread]
    /\ entity_mutex_ = NoThread
    /\ component_mutex_ = NoThread
    /\ system_mutex_ = NoThread

\* set.FilterInPlace(p) on the set the thread holds.
FilterInPlace(t, P) ==
    /\ ~crashed
    /\ LET input == threads[t].snapshot
           output == FilterInPlaceEntities(input, P)
       IN /\ threads' = [threads EXCEPT ![t].snapshot = output]
          /\ call' = FilterCall("FilterInPlace", input, P, output, "ok")
    /\ trip' = NoTrip
    /\ UNCHANGED <<storage, entities_, components_, crashed, schedVars,
                   entity_mutex_, component_mutex_, system_mutex_>>

\* std::move(set).Filter(p), or Filter(p) on the temporary a query returned:
\* the thread goes on with the set returned.
Filter(t, P) ==
    /\ ~crashed
    /\ LET input == threads[t].snapshot
           output == FilterEntities(input, P)
       IN /\ threads' = [threads EXCEPT ![t].snapshot = output]
          /\ call' = FilterCall("Filter", input, P, output, "ok")
    /\ trip' = NoTrip
    /\ UNCHANGED <<storage, entities_, components_, crashed, schedVars,
                   entity_mutex_, component_mutex_, system_mutex_>>

\* set.Filter(p) on a named set selects Filter(F&&) const&, which passes the
\* const_iterators of entities_ to std::partition: the swap of two const
\* elements does not compile, so the call has no outcome but the rejection
\* of the program.
Filter_ConstRef(t, P) ==
    /\ ~crashed
    /\ call' = FilterCall("Filter const&", threads[t].snapshot, P, <<>>, "ill-formed")
    /\ trip' = NoTrip
    /\ UNCHANGED <<storage, entities_, components_, crashed, schedVars, lockVars>>

NextFilter ==
    \/ \E P \in SUBSET FilterIds : FilterInPlace(ClientThread, P)
    \/ \E P \in SUBSET FilterIds : Filter(ClientThread, P)
    \/ \E P \in SUBSET FilterIds : Filter_ConstRef(ClientThread, P)

SpecFilter == InitFilter /\ [][NextFilter]_vars

(***************************************************************************)
(* A client that registers systems and runs steps, and the workers.        *)
(***************************************************************************)
\* Mutant: RegisterSystem that stores the new SystemInvoke whether or not the
\* type has one.
RegisterSystem_NoCheck(S) ==
    /\ ~crashed
    /\ executor_.pc = "idle"
    /\ Len(taskflow_.nodes) < MaxTasks
    /\ \E a \in Allocations :
          /\ taskflow_' = [taskflow_ EXCEPT !.nodes = Append(@, a)]
          /\ systems_' = MapPut(systems_, S,
                                [system |-> a, task |-> Len(taskflow_.nodes) + 1])
    /\ history' = Registered([history EXCEPT !.invoked = MapPut(@, S, 0),
                                             !.steps = MapPut(@, S, 0)], S)
    /\ Returns(Call("RegisterSystem", S, NoEntity, "ok", 0, -1))
    /\ UNCHANGED <<storage, entities_, components_, crashed, executor_, lockVars>>

\* Mutant: RegisterSystem that creates the system and its task before it
\* looks the type up, so that a refused registration leaves a task behind.
RegisterSystem_LateCheck(S) ==
    /\ ~crashed
    /\ executor_.pc = "idle"
    /\ Len(taskflow_.nodes) < MaxTasks
    /\ IF S \in DOMAIN systems_
       THEN /\ taskflow_' = [taskflow_ EXCEPT !.nodes = Append(@, systems_[S].system)]
            /\ Returns(Call("RegisterSystem", S, NoEntity, "runtime_error", 0, -1))
            /\ UNCHANGED <<systems_, history>>
       ELSE /\ \E a \in Allocations :
                  /\ taskflow_' = [taskflow_ EXCEPT !.nodes = Append(@, a)]
                  /\ systems_' = MapPut(systems_, S,
                                        [system |-> a, task |-> Len(taskflow_.nodes) + 1])
            /\ history' = Registered([history EXCEPT !.invoked = MapPut(@, S, 0),
                                                     !.steps = MapPut(@, S, 0)], S)
            /\ Returns(Call("RegisterSystem", S, NoEntity, "ok", 0, -1))
    /\ UNCHANGED <<storage, entities_, components_, crashed, executor_, lockVars>>

RegisterSystem(S) ==
    /\ ~crashed
    /\ executor_.pc = "idle"
    /\ IF S \in DOMAIN systems_
       THEN /\ Returns(Call("RegisterSystem", S, NoEntity, "runtime_error", 0, -1))
            /\ UNCHANGED <<systems_, taskflow_, history>>
       ELSE /\ Len(taskflow_.nodes) < MaxTasks
            /\ \E a \in Allocations :
                  /\ taskflow_' = [taskflow_ EXCEPT !.nodes = Append(@, a)]
                  /\ systems_' = MapPut(systems_, S,
                                        [system |-> a, task |-> Len(taskflow_.nodes) + 1])
            /\ history' = Registered([history EXCEPT !.invoked = MapPut(@, S, 0),
                                                     !.steps = MapPut(@, S, 0)], S)
            /\ Returns(Call("RegisterSystem", S, NoEntity, "ok", 0, -1))
    /\ UNCHANGED <<storage, entities_, components_, crashed, executor_, lockVars>>

\* Mutant: Precede that throws for an unknown first type only; the task of
\* an unknown second type is a default tf::Task, and preceding it adds an
\* edge to no task of the graph.
Precede_OneLookup(S0, S1) ==
    /\ ~crashed
    /\ executor_.pc = "idle"
    /\ IF S0 \notin DOMAIN systems_
       THEN /\ Returns(PrecedeCall(S0, S1, "runtime_error"))
            /\ UNCHANGED <<taskflow_, history>>
       ELSE LET edge == <<systems_[S0].task,
                          IF S1 \in DOMAIN systems_ THEN systems_[S1].task ELSE 0>>
            IN /\ edge \in taskflow_.edges \/ Cardinality(taskflow_.edges) < MaxEdges
               /\ taskflow_' = [taskflow_ EXCEPT !.edges = @ \cup {edge}]
               /\ history' = [history EXCEPT !.declared = @ \cup {<<S0, S1>>}]
               /\ Returns(PrecedeCall(S0, S1, "ok"))
    /\ UNCHANGED <<storage, entities_, components_, crashed, systems_, executor_, lockVars>>

Precede(S0, S1) ==
    /\ ~crashed
    /\ executor_.pc = "idle"
    /\ IF S0 \notin DOMAIN systems_ \/ S1 \notin DOMAIN systems_
       THEN /\ Returns(PrecedeCall(S0, S1, "runtime_error"))
            /\ UNCHANGED <<taskflow_, history>>
       ELSE LET edge == <<systems_[S0].task, systems_[S1].task>>
            IN /\ edge \in taskflow_.edges \/ Cardinality(taskflow_.edges) < MaxEdges
               /\ taskflow_' = [taskflow_ EXCEPT !.edges = @ \cup {edge}]
               /\ history' = [history EXCEPT !.declared = @ \cup {<<S0, S1>>}]
               /\ Returns(PrecedeCall(S0, S1, "ok"))
    /\ UNCHANGED <<storage, entities_, components_, crashed, systems_, executor_, lockVars>>

\* World::Run() up to executor_.run(taskflow_): every task of the graph is
\* part of the topology, none has run.
RunBegin ==
    /\ ~crashed
    /\ executor_.pc = "idle"
    /\ history.runs < MaxRuns
    /\ executor_' = [pc |-> "running",
                     state |-> [n \in Tasks |-> "pending"],
                     target |-> [n \in Tasks |-> NoType]]
    /\ history' = [history EXCEPT !.runs = @ + 1]
    /\ call' = Call("Run", NoType, NoEntity, "running", 0, -1)
    /\ trip' = NoTrip
    /\ UNCHANGED <<storage, entities_, components_, crashed, systems_, taskflow_, lockVars>>

\* A worker starts task n: the lambda calls system->Run through the pointer
\* it captured. When the object it pointed to was destroyed, the call runs
\* the Run of the system object now at that address, and when there is none
\* it either runs on the freed memory (the Run of the destroyed object) or
\* ends the process.
TaskStart(n) ==
    /\ ~crashed
    /\ executor_.pc = "running"
    /\ Ready(n)
    /\ LET S == Occupant(taskflow_.nodes[n])
       IN IF S # NoType
          THEN /\ executor_' = [executor_ EXCEPT !.state[n] = "running", !.target[n] = S]
               /\ history' = [history EXCEPT !.invoked[S] = @ + 1]
               /\ UNCHANGED <<storage, entities_, components_, crashed, call, trip,
                              systems_, taskflow_, lockVars>>
          ELSE \/ /\ executor_' = [executor_ EXCEPT !.state[n] = "running"]
                  /\ UNCHANGED <<storage, entities_, components_, crashed, call, trip,
                                 systems_, taskflow_, history, lockVars>>
               \/ Terminate("Run", NoType, NoEntity)

\* The Run of the system returns and the task is done.
TaskFinish(n) ==
    /\ ~crashed
    /\ executor_.pc = "running"
    /\ executor_.state[n] = "running"
    /\ executor_' = [executor_ EXCEPT !.state[n] = "done"]
    /\ UNCHANGED <<storage, entities_, components_, crashed, call, trip,
                   systems_, taskflow_, history, lockVars>>

\* The Run of the system called by task n throws. The lambda of the task
\* catches nothing and neither does the worker of tf::Executor that runs it,
\* so the exception leaves the worker thread's function: std::terminate.
TaskThrow(n) ==
    /\ ~crashed
    /\ executor_.pc = "running"
    /\ executor_.state[n] = "running"
    /\ executor_.target[n] # NoType
    /\ Terminate("System::Run", executor_.target[n], NoEntity)

\* World::Run() from executor_.wait_for_all() to its return.
RunReturn ==
    /\ ~crashed
    /\ executor_.pc = "running"
    /\ WaitForAll(executor_)
    /\ executor_' = IdleExecutor
    /\ history' = [history EXCEPT !.steps = [S \in DOMAIN @ |-> @[S] + 1]]
    /\ Returns(Call("Run", NoType, NoEntity, "ok", 0, -1))
    /\ UNCHANGED <<storage, entities_, components_, crashed, systems_, taskflow_, lockVars>>

NextRun ==
    \/ \E S \in SystemTypes : RegisterSystem(S)
    \/ \E S0, S1 \in SystemTypes : Precede(S0, S1)
    \/ RunBegin
    \/ \E n \in Tasks : TaskStart(n)
    \/ \E n \in Tasks : TaskFinish(n)
    \/ \E n \in Tasks : TaskThrow(n)
    \/ RunReturn
    \/ Reset

SpecRun == Init /\ [][NextRun]_vars

(***************************************************************************)
(* World::Run() with systems whose Run returns, under fair scheduling: a   *)
(* worker takes a ready task, the Run it calls returns, and the thread in  *)
(* wait_for_all() wakes up once the topology has finished.                 *)
(***************************************************************************)
NextRunFair ==
    \/ \E S \in SystemTypes : RegisterSystem(S)
    \/ \E S0, S1 \in SystemTypes : Precede(S0, S1)
    \/ RunBegin
    \/ \E n \in Tasks : TaskStart(n)
    \/ \E n \in Tasks : TaskFinish(n)
    \/ RunReturn
    \/ Reset

Fairness ==
    /\ WF_vars(\E n \in Tasks : TaskStart(n))
    /\ WF_vars(\E n \in Tasks : TaskFinish(n))
    /\ WF_vars(RunReturn)

SpecRunFair == Init /\ [][NextRunFair]_vars /\ Fairness

(***************************************************************************)
(* Client threads calling CreateEntity, DestroyEntity, World::AddComponent, *)
(* RegisterComponent and RegisterSystem at the same time: each call takes   *)
(* its mutexes one lock_guard after the other and releases them on return.  *)
(***************************************************************************)
\* The types the threads register; the id they destroy and add components
\* to is that of AccessIds.
LockComponentTypes == {"Position"}
LockSystemTypes == {"A"}

\* RegisterComponent<T>(): the lock_guard on component_mutex_.
RegisterComponent_Lock(t, T) ==
    /\ ~crashed
    /\ threads[t].pc = "idle"
    /\ CanLock(component_mutex_)
    /\ component_mutex_' = t
    /\ threads' = [threads EXCEPT ![t].pc = "emplace_component", ![t].type = T]
    /\ UNCHANGED <<storage, entities_, components_, crashed, call, trip, schedVars,
                   entity_mutex_, system_mutex_>>

\* The check and the emplace; the lock_guard releases the mutex on return and
\* when the std::runtime_error leaves the function.
RegisterComponent_Emplace(t) ==
    /\ ~crashed
    /\ threads[t].pc = "emplace_component"
    /\ LET T == threads[t].type
       IN IF T \in DOMAIN components_
          THEN /\ Returns(Call("RegisterComponent", T, NoEntity, "runtime_error", 0, -1))
               /\ UNCHANGED <<components_, history>>
          ELSE /\ components_' = MapPut(components_, T, EmptyStorage)
               /\ history' = Registered(history, T)
               /\ Returns(Call("RegisterComponent", T, NoEntity, "ok", 0, -1))
    /\ component_mutex_' = NoThread
    /\ threads' = [threads EXCEPT ![t].pc = "idle", ![t].type = NoType]
    /\ UNCHANGED <<storage, entities_, crashed, systems_, taskflow_, executor_,
                   entity_mutex_, system_mutex_>>

\* RegisterSystem<S>(): the lock_guard on system_mutex_.
RegisterSystem_Lock(t, S) ==
    /\ ~crashed
    /\ threads[t].pc = "idle"
    /\ S \in DOMAIN systems_ \/ Len(taskflow_.nodes) < MaxTasks
    /\ CanLock(system_mutex_)
    /\ system_mutex_' = t
    /\ threads' = [threads EXCEPT ![t].pc = "emplace_system", ![t].type = S]
    /\ UNCHANGED <<storage, entities_, components_, crashed, call, trip, schedVars,
                   entity_mutex_, component_mutex_>>

\* The check, the new system and its task; the lock_guard releases the mutex.
RegisterSystem_Emplace(t) ==
    /\ ~crashed
    /\ threads[t].pc = "emplace_system"
    /\ LET S == threads[t].type
       IN IF S \in DOMAIN systems_
          THEN /\ Returns(Call("RegisterSystem", S, NoEntity, "runtime_error", 0, -1))
               /\ UNCHANGED <<systems_, taskflow_, history>>
          ELSE /\ \E a \in Allocations :
                     /\ taskflow_' = [taskflow_ EXCEPT !.nodes = Append(@, a)]
                     /\ systems_' = MapPut(systems_, S,
                                           [system |-> a, task |-> Len(taskflow_.nodes) + 1])
               /\ history' = Registered([history EXCEPT !.invoked = MapPut(@, S, 0),
                                                        !.steps = MapPut(@, S, 0)], S)
               /\ Returns(Call("RegisterSystem", S, NoEntity, "ok", 0, -1))
    /\ system_mutex_' = NoThread
    /\ threads' = [threads EXCEPT ![t].pc = "idle", ![t].type = NoType]
    /\ UNCHANGED <<storage, entities_, components_, crashed, executor_,
                   entity_mutex_, component_mutex_>>

\* A step of thread t inside the call it is making, from the first mutex
\* the call holds on.
InCallStep(t) ==
    \/ CreateEntity_Scan(t)
    \/ CreateEntity_Grow(t)
    \/ CreateEntity_Mark(t)
    \/ CreateEntity_Return(t)
    \/ DestroyEntity_LockEntities(t)
    \/ DestroyEntity_Purge(t)
    \/ DestroyEntity_Clear(t)
    \/ AddComponent_Add(t)
    \/ RegisterComponent_Emplace(t)
    \/ RegisterSystem_Emplace(t)

NextLocks ==
    \/ \E t \in Threads : CreateEntity_Lock(t)
    \/ \E t \in Threads, e \in AccessIds : DestroyEntity_LockComponents(t, e)
    \/ \E t \in Threads, T \in LockComponentTypes, e \in AccessIds : AddComponent_Lock(t, T, e)
    \/ \E t \in Threads, T \in LockComponentTypes : RegisterComponent_Lock(t, T)
    \/ \E t \in Threads, S \in LockSystemTypes : RegisterSystem_Lock(t, S)
    \/ \E t \in Threads : InCallStep(t)

SpecLocks == Init /\ [][NextLocks]_vars

(***************************************************************************)
(* The world of the SimplePhysicsSystem test: Position and Velocity are     *)
(* registered, entities are built with Position or with both, one system    *)
(* adds Velocity into Position, and World::Run() is called step after step. *)
(***************************************************************************)
MaxSteps == 3

\* Velocity{}: each coordinate is 1 (Position{} is DefaultValue).
VelocityDefault == 1

PhysicsSystem == "A"

PhysicsComponents == [t \in ComponentTypes |-> EmptyStorage]

\* The component of entity e in storage s.
ValueOf(s, e) == At(s, DenseGetComponent(s, e).index)

\* AddComponent<T>(e) of the builder: the new component is a T{}.
BuilderAdd(cs, T, e) ==
    LET r == DenseAddComponent(cs[T], e)
        added == IF T = "Velocity" /\ r.res = "ok"
                 THEN [r.st EXCEPT !.components_[Len(r.st.components_)] = VelocityDefault]
                 ELSE r.st
    IN [cs EXCEPT ![T] = added]

RECURSIVE BuilderChain(_, _, _)
BuilderChain(cs, types, e) ==
    IF types = <<>> THEN cs
    ELSE BuilderChain(BuilderAdd(cs, Head(types), e), Tail(types), e)

\* CreateEntity().AddComponent<...>()...Build().
Build(types) ==
    /\ ~crashed
    /\ executor_.pc = "idle"
    /\ history.runs = 0
    /\ Cardinality(Live(entities_)) < MaxLive
    /\ LET r == CreateEntityResult(entities_)
       IN /\ entities_' = r.entities
          /\ components_' = BuilderChain(components_, types, r.id)
          /\ Returns(Call("Build", NoType, r.id, "ok", 0, -1))
    /\ UNCHANGED <<storage, crashed, schedVars, lockVars>>

\* Mutant: the loop body reading the position at the index the entity has in
\* the storage of Velocity.
Integrate_VelocityIndex(cs, e) ==
    LET positions == cs["Position"]
        velocities == cs["Velocity"]
        vel == DenseGetComponent(velocities, e)
    IN [cs EXCEPT !["Position"].components_[vel.index + 1] = @ + At(velocities, vel.index)]

\* The body of the loop of PhysicsSystem::Run: pos_comp += dt * vel_comp, dt = 1.
Integrate(cs, e) ==
    LET positions == cs["Position"]
        velocities == cs["Velocity"]
        pos == DenseGetComponent(positions, e)
        vel == DenseGetComponent(velocities, e)
    IN [cs EXCEPT !["Position"].components_[pos.index + 1] = @ + At(velocities, vel.index)]

RECURSIVE IntegrateAll(_, _)
IntegrateAll(cs, entities) ==
    IF entities = <<>> THEN cs
    ELSE IntegrateAll(Integrate(cs, Head(entities)), Tail(entities))

\* PhysicsSystem::Run: the snapshot of the live entities, filtered to those
\* with both components, then the loop over them.
PhysicsRun(tbl, cs) ==
    LET snapshot == EntityQuery(tbl)
        both == {e \in {snapshot[i] : i \in DOMAIN snapshot} :
                    HasComponent(cs["Position"], e) /\ HasComponent(cs["Velocity"], e)}
    IN IntegrateAll(cs, FilterEntities(snapshot, both))

\* World::Run() with the one task of PhysicsSystem in the graph: the executor
\* runs it and wait_for_all() returns.
Physics_Step ==
    /\ ~crashed
    /\ executor_.pc = "idle"
    /\ PhysicsSystem \in DOMAIN systems_
    /\ history.runs < MaxSteps
    /\ components_' = PhysicsRun(entities_, components_)
    /\ history' = [history EXCEPT !.runs = @ + 1,
                                  !.invoked[PhysicsSystem] = @ + 1,
                                  !.steps[PhysicsSystem] = @ + 1]
    /\ Returns(Call("Run", NoType, NoEntity, "ok", 0, -1))
    /\ UNCHANGED <<storage, entities_, crashed, systems_, taskflow_, executor_, lockVars>>

InitPhysics ==
    /\ storage = EmptyStorage
    /\ entities_ = EmptyTable
    /\ components_ = PhysicsComponents
    /\ crashed = FALSE
    /\ call = Call("RegisterComponent", "Velocity", NoEntity, "ok", 0, -1)
    /\ trip = NoTrip
    /\ systems_ = EmptyMap
    /\ taskflow_ = EmptyTaskflow
    /\ executor_ = IdleExecutor
    /\ history = NoHistory
    /\ threads = [t \in Threads |-> IdleThread]
    /\ entity_mutex_ = NoThread
    /\ component_mutex_ = NoThread
    /\ system_mutex_ = NoThread

NextPhysics ==
    \/ Build(<<"Position">>)
    \/ Build(<<"Position", "Velocity">>)
    \/ history.runs = 0 /\ \E e \in EntityIds : e < entities_.size /\ DestroyEntity(e)
    \/ RegisterSystem(PhysicsSystem)
    \/ Physics_Step

SpecPhysics == InitPhysics /\ [][NextPhysics]_vars

(***************************************************************************)
(* A client that registers component and system types between the other    *)
(* calls of the World, with the registrations that ever succeeded recorded. *)
(***************************************************************************)
InitRegistration ==
    /\ storage = EmptyStorage
    /\ entities_ = EmptyTable
    /\ components_ = EmptyMap
    /\ crashed = FALSE
    /\ call = Call("World", NoType, NoEntity, "ok", 0, -1)
    /\ trip = NoTrip
    /\ systems_ = EmptyMap
    /\ taskflow_ = EmptyTaskflow
    /\ executor_ = IdleExecutor
    /\ history = [NoHistory EXCEPT !.tracking = TRUE]
    /\ threads = [t \in Threads |-> IdleThread]
    /\ entity_mutex_ = NoThread
    /\ component_mutex_ = NoThread
    /\ system_mutex_ = NoThread

NextRegistration ==
    \/ executor_.pc = "idle" /\ \E t \in ComponentTypes : RegisterComponent(t)
    \/ RegisterSystem("A")
    \/ executor_.pc = "idle" /\ Cardinality(Live(entities_)) < MaxLive /\ CreateEntity
    \/ executor_.pc = "idle" /\ AddComponent("Position", 0)
    \/ executor_.pc = "idle" /\ DestroyEntity(0)
    \/ RunBegin
    \/ \E n \in Tasks : TaskStart(n)
    \/ \E n \in Tasks : TaskFinish(n)
    \/ RunReturn
    \/ Reset

SpecRegistration == InitRegistration /\ [][NextRegistration]_vars

(***************************************************************************)
(* Claims on the entity table and the component storages.                  *)
(***************************************************************************)

\* C1: every entity id that is a key of some component storage of the World
\* is marked live in the entity table (a dead or never created id is a key
\* of no storage).
C1_KeysAreLive ==
    \A t \in DOMAIN components_ :
        \A e \in DOMAIN components_[t].component_index_ : IsLive(e)

\* The entity-to-index map of s is a bijection onto 0 .. size(s) - 1, and each
\* position is the one GetComponent reads for exactly one entity.
IsDense(s) ==
    LET ci == s.component_index_
    IN /\ \A e \in DOMAIN ci : ci[e] \in 0 .. size(s) - 1
       /\ \A e1, e2 \in DOMAIN ci : e1 # e2 => ci[e1] # ci[e2]
       /\ \A i \in 0 .. size(s) - 1 :
              Cardinality({e \in DOMAIN ci : DenseGetComponent(s, e).index = i}) = 1

\* C2: after any sequence of AddComponent and RemoveComponent calls on one
\* DenseComponentStorage its entity-to-index map is a bijection from its keys
\* onto 0 .. size() - 1.
C2_DenseBijection == IsDense(storage)

\* A removal that moved the last component into a slot in front of it left
\* two components behind.
C2_Witness ==
    /\ call.op = "RemoveComponent"
    /\ call.result = "ok"
    /\ call.size0 = MaxStored
    /\ call.index = 0

\* C6: a successful World::AddComponent<T>(e) makes HasComponent(e) true in
\* T's storage, increases its size() by exactly one, and the new component is
\* default-constructed.
C6_AddComponentAdds ==
    [][(call'.op = "AddComponent" /\ call'.result = "ok") =>
          LET t == call'.type
              e == call'.entity
          IN /\ ~HasComponent(components_[t], e)
             /\ HasComponent(components_'[t], e)
             /\ size(components_'[t]) = size(components_[t]) + 1
             /\ At(components_'[t], DenseGetComponent(components_'[t], e).index)
                    = DefaultValue]_vars

\* A component was added to a storage that already held one.
C6_Witness ==
    /\ call.op = "AddComponent"
    /\ call.result = "ok"
    /\ call.size0 >= 1
    /\ HasComponent(components_[call.type], call.entity)

\* C7: AddComponent<T>(e) followed by RemoveComponent(e) on T's storage, or by
\* DestroyEntity(e), leaves HasComponent(e) false for T and the size() of T's
\* storage equal to its value before the add.
C7_RoundTrip ==
    trip.undone =>
        /\ trip.type \in DOMAIN components_
        /\ ~HasComponent(components_[trip.type], trip.entity)
        /\ size(components_[trip.type]) = trip.size0

\* The add was undone by DestroyEntity, on a storage that held another component.
C7_Witness ==
    /\ trip.undone
    /\ call.op = "DestroyEntity"
    /\ trip.size0 >= 1

\* C8: removing e's component from a storage leaves every other entity f in
\* the storage, and GetComponent(f) returns the value it returned before.
C8_RemoveKeepsOthers ==
    [][(call'.op = "RemoveComponent" /\ call'.result = "ok") =>
          \A f \in (DOMAIN storage.component_index_) \ {call'.entity} :
              /\ HasComponent(storage', f)
              /\ At(storage', DenseGetComponent(storage', f).index)
                     = At(storage, DenseGetComponent(storage, f).index)]_vars

\* The first of three components was removed, and the two left differ in value.
C8_Witness ==
    /\ call.op = "RemoveComponent"
    /\ call.result = "ok"
    /\ call.size0 = 3
    /\ call.index = 0
    /\ size(storage) = 2
    /\ At(storage, 0) # At(storage, 1)

\* C9: AddComponent(e) on a storage in which e already has a component fails
\* with std::runtime_error and leaves the storage unchanged.
C9_DuplicateAddFails ==
    [][\A e \in EntityIds :
          (HasComponent(storage, e) /\ call'.op = "AddComponent" /\ call'.entity = e) =>
              (call'.result = "runtime_error" /\ storage' = storage)]_vars

\* A duplicate add was refused by a storage holding two components.
C9_Witness ==
    /\ call.op = "AddComponent"
    /\ call.result = "runtime_error"
    /\ size(storage) >= 2

\* C10: GetComponent(e) and RemoveComponent(e) on a storage in which e has no
\* component fail with std::runtime_error and leave the storage unchanged (no
\* mapping entry is inserted for e).
C10_MissingFails ==
    [][\A e \in EntityIds :
          (/\ ~HasComponent(storage, e)
           /\ call'.op \in {"GetComponent", "RemoveComponent"}
           /\ call'.entity = e) =>
              (call'.result = "runtime_error" /\ storage' = storage)]_vars

\* A lookup of an absent entity was refused by a storage that holds components.
C10_Witness ==
    /\ call.op = "GetComponent"
    /\ call.result = "runtime_error"
    /\ size(storage) >= 1

\* The same for a removal.
C10_WitnessRemove ==
    /\ call.op = "RemoveComponent"
    /\ call.result = "runtime_error"
    /\ size(storage) >= 1

\* C11: RegisterComponent<T>() for a registered type T fails with
\* std::runtime_error and leaves the storage of T (entities, indices and
\* component values) as it was.
C11_DuplicateComponentFails ==
    [][\A t \in ComponentTypes :
          (t \in DOMAIN components_ /\ call'.op = "RegisterComponent" /\ call'.type = t) =>
              /\ call'.result = "runtime_error"
              /\ ~crashed'
              /\ components_' = components_]_vars

\* The second registration of a type whose storage holds a component was refused.
C11_Witness ==
    /\ call.op = "RegisterComponent"
    /\ call.result = "runtime_error"
    /\ call.type \in DOMAIN components_
    /\ size(components_[call.type]) >= 1

\* C12 as stated: once the registration of a component or system type has
\* succeeded, every later registration of that type fails, whatever calls
\* (Reset among them) are made in between.
C12_NeverAgain ==
    [][/\ \A t \in ComponentTypes \cap history.ever :
             (executor_.pc = "idle" /\ call'.op = "RegisterComponent" /\ call'.type = t) =>
                 call'.result = "runtime_error"
       /\ \A S \in SystemTypes \cap history.ever :
             (executor_.pc = "idle" /\ call'.op = "RegisterSystem" /\ call'.type = S) =>
                 call'.result = "runtime_error"]_vars

\* C12, amended: once the registration of a component or system type has
\* succeeded, every later registration of that type fails until Reset is
\* called, whatever other calls are made in between.
C12_NotAgainBeforeReset ==
    [][/\ \A t \in ComponentTypes \cap history.registered :
             (executor_.pc = "idle" /\ call'.op = "RegisterComponent" /\ call'.type = t) =>
                 call'.result = "runtime_error"
       /\ \A S \in SystemTypes \cap history.registered :
             (executor_.pc = "idle" /\ call'.op = "RegisterSystem" /\ call'.type = S) =>
                 call'.result = "runtime_error"]_vars

\* A registration was refused after a step of the simulation had run and an
\* entity with a component had been destroyed.
C12_Witness ==
    /\ call.op \in {"RegisterComponent", "RegisterSystem"}
    /\ call.result = "runtime_error"
    /\ history.runs >= 1
    /\ entities_.size > 0
    /\ Live(entities_) = {}
    /\ "Position" \in DOMAIN components_

\* C14: for a component type T that was never registered, each of
\* World::AddComponent<T>, GetComponent<T> and GetComponentByIndex<T> fails at
\* the call with a thrown std::runtime_error, which the caller can catch
\* (GetNumComponents<T> is in no program that builds).
C14_UnregisteredThrows ==
    [][\A t \in ComponentTypes :
          (/\ ~crashed
           /\ t \notin DOMAIN components_
           /\ call'.type = t
           /\ call'.op \in {"AddComponent", "GetComponent", "GetComponentByIndex"}) =>
              (call'.result = "runtime_error" /\ ~crashed')]_vars

\* C16: CreateEntity returns an id that was not marked live before the call
\* marked it and is marked live when the call returns, and that no entity
\* created earlier and not destroyed since has, for every interleaving of
\* CreateEntity and DestroyEntity calls made by threads at the same time.
C16_FreshId ==
    [][\A t \in Threads :
          /\ (threads[t].pc = "mark" /\ threads'[t].pc = "return") =>
                /\ ~Bit(entities_, threads[t].id)
                /\ \A u \in Threads : threads[t].id \notin threads[u].owned
                /\ Bit(entities_', threads[t].id)
          /\ (threads[t].pc = "return" /\ threads'[t].pc = "idle") =>
                /\ threads[t].id < entities_.size
                /\ Bit(entities_, threads[t].id)
                /\ \A u \in Threads \ {t} : threads[t].id \notin threads[u].owned]_vars

\* A thread was handed an id another thread had destroyed, while the entity
\* the other thread created after that is live.
C16_Witness ==
    /\ call.op = "CreateEntity"
    /\ \E t, u \in Threads :
          /\ t # u
          /\ threads[t].pc = "idle"
          /\ threads[t].owned # {}
          /\ threads[u].owned # {}
          /\ threads[u].pc = "lock_entities"

\* The dead slots of a table.
DeadSlots(tbl) == {i \in 0 .. tbl.size - 1 : ~Bit(tbl, i)}

\* C17: CreateEntity grows the entity table only when no slot of the table is
\* dead, and then by exactly kEntitySizeIncrement (128) slots; when a slot is
\* dead the size is unchanged and the returned id is one of the dead slots.
\* The size of the table is always a multiple of 128.
C17_GrowsWhenFull ==
    [][/\ entities_'.size % kEntitySizeIncrement = 0
       /\ (call'.op = "CreateEntity" /\ ~crashed') =>
             IF DeadSlots(entities_) = {}
             THEN /\ entities_'.size = entities_.size + kEntitySizeIncrement
                  /\ call'.entity = entities_.size
             ELSE /\ entities_'.size = entities_.size
                  /\ call'.entity \in DeadSlots(entities_)]_vars

\* A table of 128 live entities grew to 256 slots and handed out slot 128.
C17_Witness ==
    /\ call.op = "CreateEntity"
    /\ call.entity = kEntitySizeIncrement
    /\ entities_.size = 2 * kEntitySizeIncrement
    /\ Cardinality(Live(entities_)) > kEntitySizeIncrement

\* A destroyed id was handed out again by a table that did not grow.
C17_WitnessReuse ==
    /\ call.op = "CreateEntity"
    /\ call.entity = 0
    /\ entities_.size = kEntitySizeIncrement
    /\ Cardinality(Live(entities_)) = kEntitySizeIncrement

\* C18: DestroyEntity(e) for a live entity e removes e's component from every
\* registered storage that holds one, leaves the storages that hold none
\* untouched and raises no error, and marks e dead: afterwards HasComponent(e)
\* is false in every storage and e is in no snapshot of an entity query until
\* CreateEntity hands the id out again.
C18_DestroyRemovesAll ==
    [][/\ \A e \in EntityIds :
             (IsLive(e) /\ call'.op = "DestroyEntity" /\ call'.entity = e) =>
                 /\ call'.result = "ok"
                 /\ ~crashed'
                 /\ DOMAIN components_' = DOMAIN components_
                 /\ \A t \in DOMAIN components_ :
                       /\ ~HasComponent(components_'[t], e)
                       /\ ~HasComponent(components_[t], e) =>
                             components_'[t] = components_[t]
                 /\ ~Bit(entities_', e)
                 /\ \A i \in 1 .. Len(EntityQuery(entities_')) :
                       EntityQuery(entities_')[i] # e
       /\ \A e \in EntityIds :
             (~IsLive(e) /\ e < entities_'.size /\ Bit(entities_', e)) =>
                 (call'.op = "CreateEntity" /\ call'.entity = e)]_vars

\* An entity with a component in each of two storages was destroyed.
C18_Witness ==
    /\ call.op = "DestroyEntity"
    /\ call.result = "ok"
    /\ call.size0 = 2
    /\ call.live
    /\ Live(entities_) # {}
    /\ call.entity \notin Live(entities_)

\* An entity was destroyed while a storage that held no component of it held
\* the component of another entity.
C18_WitnessOther ==
    /\ call.op = "DestroyEntity"
    /\ call.result = "ok"
    /\ call.size0 = 1
    /\ call.live
    /\ \E t \in DOMAIN components_ : size(components_[t]) = 1

\* C20: after Reset() the entity and component state is that of a new World:
\* no entity is live, the table is empty, no component type is registered,
\* and the next call gives what it gives on a new World, which CreateEntity
\* (the id) and DestroyEntity (returning or ending the process) are the calls
\* to depend on the table for.
C20_ResetIsFresh ==
    [][(call'.op = "Reset" /\ ~crashed') =>
          /\ Live(entities_') = {}
          /\ entities_'.size = 0
          /\ components_' = EmptyMap
          /\ CreateEntityResult(entities_').id = CreateEntityResult(EmptyTable).id
          /\ \A e \in EntityIds :
                DestroyOutcomes(entities_', e) = DestroyOutcomes(EmptyTable, e)]_vars

\* DestroyEntity(e) is under way on some thread and has removed e from a
\* storage while another storage still holds it.
HalfDestroyed(e) ==
    \E t \in Threads :
        /\ threads[t].pc = "purge"
        /\ threads[t].entity = e
        /\ threads[t].removed # {}
        /\ \E T \in DOMAIN components_ : HasComponent(components_[T], e)

\* C22: DestroyEntity(e) is atomic for the other threads: while e is removed
\* from some storages and still in others, no other thread is inside
\* CreateEntity's table accesses, a storage's member function or an entity
\* query.
C22_DestroyAtomic ==
    \A e \in AccessIds :
        HalfDestroyed(e) =>
            \A u \in Threads :
                threads[u].pc \notin {"scan", "mark", "read", "mutate", "locked_add", "query"}

\* C23: while the loop of DestroyEntity goes through the storages, no other
\* thread is inside AddComponent or RemoveComponent of a storage.
C23_NoMutationDuringPurge ==
    \A t, u \in Threads :
        (t # u /\ threads[t].pc = "purge") => threads[u].pc \notin {"mutate", "locked_add"}

\* C24: a thread that reads or writes entities_ (the scan, resize and mark of
\* CreateEntity, the write of DestroyEntity, the loop of the entity query)
\* holds entity_mutex_.
C24_TableLocked ==
    \A t \in Threads :
        threads[t].pc \in {"scan", "grow", "mark", "clear", "query"} => entity_mutex_ = t

\* C40: DestroyEntity(e) for an id e not smaller than the size of the entity
\* table accesses nothing outside the table: the call returns and the table
\* is as it was.
C40_DestroyInsideTable ==
    [][\A e \in EntityIds :
          (/\ ~crashed
           /\ e >= entities_.size
           /\ call'.op = "DestroyEntity"
           /\ call'.entity = e) => (~crashed' /\ entities_' = entities_)]_vars

\* C33: DestroyEntity(e) on an id that DestroyEntity made dead, no CreateEntity
\* having handed it out again, returns and leaves the entity table and every
\* storage as they were. Stated for id 0, the first id of every table: when
\* its slot is in the table and dead, it was handed out and then destroyed.
C33_SecondDestroyIsNoOp ==
    [][(/\ ~crashed
        /\ 0 < entities_.size
        /\ ~Bit(entities_, 0)
        /\ call'.op = "DestroyEntity"
        /\ call'.entity = 0) =>
           (~crashed' /\ entities_' = entities_ /\ components_' = components_)]_vars

\* C34: a successful RemoveComponent(e) changes the index of at most one
\* other entity: the entity that owned the last slot gets e's former index,
\* and every other remaining entity keeps its index (when e owned the last
\* slot, or was the only element, no other index changes).
C34_RemoveRemapsOne ==
    [][(call'.op = "RemoveComponent" /\ call'.result = "ok") =>
          LET ci == storage.component_index_
              e == call'.entity
              last_index == size(storage) - 1
          IN /\ DOMAIN storage'.component_index_ = DOMAIN ci \ {e}
             /\ \A f \in DOMAIN ci \ {e} :
                    storage'.component_index_[f] =
                        IF ci[f] = last_index THEN ci[e] ELSE ci[f]
             /\ Cardinality({f \in DOMAIN ci \ {e} :
                                storage'.component_index_[f] # ci[f]}) <= 1]_vars

\* The first of three components was removed: the owner of the last slot is
\* now at index 0 and the owner of the middle slot is still at index 1.
C34_Witness ==
    /\ call.op = "RemoveComponent"
    /\ call.result = "ok"
    /\ call.size0 = 3
    /\ call.index = 0
    /\ \E f, g \in DOMAIN storage.component_index_ :
           /\ storage.component_index_[f] = 0
           /\ storage.component_index_[g] = 1

\* The last of three components was removed and the two others are where
\* they were.
C34_WitnessLast ==
    /\ call.op = "RemoveComponent"
    /\ call.result = "ok"
    /\ call.size0 = 3
    /\ call.index = 2
    /\ size(storage) = 2

\* C35: an AddComponent or RemoveComponent on the storage of a registered
\* type T, successful or failing with std::runtime_error, leaves the storage
\* of every other component type and the entity table unchanged.
C35_OneStorageTouched ==
    [][\A t \in ComponentTypes :
          (/\ ~crashed
           /\ t \in DOMAIN components_
           /\ call'.op \in {"AddComponent", "RemoveComponent"}
           /\ call'.type = t) =>
              /\ entities_' = entities_
              /\ DOMAIN components_' = DOMAIN components_
              /\ \A u \in DOMAIN components_ \ {t} : components_'[u] = components_[u]]_vars

\* A component of Position was added to a live entity while the storage of
\* Velocity held a component.
C35_Witness ==
    /\ call.op = "AddComponent"
    /\ call.result = "ok"
    /\ call.type = "Position"
    /\ IsLive(call.entity)
    /\ "Velocity" \in DOMAIN components_
    /\ size(components_["Velocity"]) = 1
    /\ size(components_["Position"]) = 1

\* A RemoveComponent on Position failed while the storage of Velocity held a
\* component.
C35_WitnessFailing ==
    /\ call.op = "RemoveComponent"
    /\ call.result = "runtime_error"
    /\ call.type = "Position"
    /\ "Velocity" \in DOMAIN components_
    /\ size(components_["Velocity"]) >= 1

\* C38: when CreateEntity returns, the id it returns, fresh or recycled, is a
\* key of no component storage: a new entity starts with no components,
\* after any sequence of earlier operations.
C38_NewEntityHasNoComponents ==
    (~crashed /\ call.op = "CreateEntity") =>
        \A t \in DOMAIN components_ : ~HasComponent(components_[t], call.entity)

\* The call that is about to return is an AddComponent of the builder chain
\* of entity e: the call before it was the CreateEntity that returned e or a
\* successful AddComponent on e.
ChainedAdd(e) ==
    /\ ~crashed
    /\ IsLive(e)
    /\ call.entity = e
    /\ call.op = "CreateEntity" \/ (call.op = "AddComponent" /\ call.result = "ok")
    /\ call'.op = "AddComponent"
    /\ call'.entity = e

\* The entity is live and holds every component it held before the step.
KeptAsBuilt(e) ==
    /\ ~crashed'
    /\ e < entities_'.size
    /\ Bit(entities_', e)
    /\ \A t \in DOMAIN components_ :
           HasComponent(components_[t], e) =>
               (t \in DOMAIN components_' /\ HasComponent(components_'[t], e))

\* C39: when an AddComponent of a builder chain
\* CreateEntity().AddComponent<A>().AddComponent<B>() fails, for a duplicate
\* component or for an unregistered type, the entity stays marked live and
\* keeps the components attached earlier in the chain.
C39_NoRollback ==
    [][\A e \in EntityIds :
          (ChainedAdd(e) /\ call'.result # "ok") => KeptAsBuilt(e)]_vars

\* The part of C39 on a duplicate component: the std::runtime_error of the
\* storage leaves the entity live with its components.
C39_DuplicateKeepsEntity ==
    [][\A e \in EntityIds :
          (ChainedAdd(e) /\ call'.result = "runtime_error") => KeptAsBuilt(e)]_vars

\* The second AddComponent of a chain failed on a duplicate and the entity
\* holds the component of the first.
C39_DuplicateWitness ==
    /\ call.op = "AddComponent"
    /\ call.result = "runtime_error"
    /\ IsLive(call.entity)
    /\ call.type \in DOMAIN components_
    /\ HasComponent(components_[call.type], call.entity)

\* C37: no interleaving of concurrent CreateEntity, DestroyEntity,
\* World::AddComponent, RegisterComponent and RegisterSystem calls deadlocks:
\* whenever a thread is inside one of these calls, some thread inside a call
\* can take its next step (the threads that wait for a mutex wait for a
\* thread that can go on).
C37_NoDeadlock ==
    (~crashed /\ \E t \in Threads : threads[t].pc # "idle") =>
        ENABLED (\E t \in Threads : InCallStep(t))

\* The lock order of C37: a thread that takes component_mutex_ or
\* system_mutex_ does not hold entity_mutex_.
C37_LockOrder ==
    [][\A t \in Threads :
          (\/ component_mutex_ # t /\ component_mutex_' = t
           \/ system_mutex_ # t /\ system_mutex_' = t) => entity_mutex_ # t]_vars

\* A thread in DestroyEntity holds component_mutex_ and waits for
\* entity_mutex_, which the other thread holds inside CreateEntity.
C37_Witness ==
    \E t, u \in Threads :
        /\ threads[t].pc = "lock_entities"
        /\ component_mutex_ = t
        /\ entity_mutex_ = u
        /\ threads[u].pc = "return"

\* C31: with the one system that adds Velocity into Position for every
\* entity holding both, after n calls of World::Run() every entity built
\* with both components (Position 0, Velocity 1) has Position n, and every
\* entity built with Position only still has Position 0, whatever ids
\* CreateEntity assigned.
C31_PhysicsAdvances ==
    \A e \in Live(entities_) :
        HasComponent(components_["Position"], e) =>
            ValueOf(components_["Position"], e) =
                IF HasComponent(components_["Velocity"], e) THEN history.runs ELSE 0

\* Three steps were run on a world in which an entity with Position only
\* sits in front of an entity with both, on a recycled id.
C31_Witness ==
    /\ call.op = "Run"
    /\ history.runs = 3
    /\ \E e, f \in Live(entities_) :
           /\ HasComponent(components_["Position"], e)
           /\ ~HasComponent(components_["Velocity"], e)
           /\ HasComponent(components_["Velocity"], f)
           /\ components_["Position"].component_index_[e] = 0
           /\ components_["Position"].component_index_[f] = 1
           /\ ValueOf(components_["Position"], f) = 3
           /\ f # 0

\* What a system's Run gets when it filters the snapshot of all entities by
\* HasComponent of the storage of type t.
WithComponent(t) ==
    LET snapshot == EntityQuery(entities_)
        has == {e \in {snapshot[i] : i \in DOMAIN snapshot} : HasComponent(components_[t], e)}
    IN FilterEntities(snapshot, has)

\* C32: filtering the snapshot of all entities by a storage's HasComponent
\* yields exactly the entities to which a component of that type was added
\* and not since removed, the keys of the storage: its length equals the
\* storage's size().
C32_FilterCountsStorage ==
    \A t \in DOMAIN components_ :
        LET filtered == WithComponent(t)
        IN /\ Len(filtered) = size(components_[t])
           /\ {filtered[i] : i \in DOMAIN filtered} = DOMAIN components_[t].component_index_

(***************************************************************************)
(* Claims on World::Run().                                                 *)
(***************************************************************************)

\* The tasks of the step in flight that ran, or run, the Run of system S.
TasksOf(S) == {n \in 1 .. Len(executor_.target) : executor_.target[n] = S}

\* C3: if Precede<A, B>() was declared, then in every World::Run() the Run of
\* A has returned before the Run of B starts (so that along a chain
\* Precede<A, B>, Precede<B, C> the systems run in the order A, B, C).
C3_PrecedeOrders ==
    [][\A d \in history.declared :
          (d[1] # d[2] /\ \E n \in TasksOf(d[2])' : n \notin TasksOf(d[2])) =>
              /\ \E m \in TasksOf(d[1]) : executor_.state[m] = "done"
              /\ \A m \in TasksOf(d[1]) : executor_.state[m] = "done"]_vars

\* C4: each World::Run() invokes the Run of every registered system exactly
\* once: a system registered k calls of World::Run() ago has been run k times
\* when the call returns, and k or k + 1 times while a call is in flight.
C4_ExactlyOncePerRun ==
    \A S \in DOMAIN systems_ :
        IF executor_.pc = "idle"
        THEN history.invoked[S] = history.steps[S]
        ELSE history.invoked[S] \in {history.steps[S], history.steps[S] + 1}

\* The tasks of the graph whose call of system->Run reaches the object of the
\* registered system S.
TasksCalling(S) == {n \in Tasks : Occupant(taskflow_.nodes[n]) = S}

C15_PrecedeUnknownFails ==
    [][\A S0, S1 \in SystemTypes :
          (/\ executor_.pc = "idle"
           /\ S0 \notin DOMAIN systems_ \/ S1 \notin DOMAIN systems_
           /\ call'.op = "Precede"
           /\ call'.type = S0
           /\ call'.type1 = S1) =>
              /\ call'.result = "runtime_error"
              /\ ~crashed'
              /\ taskflow_' = taskflow_
              /\ systems_' = systems_]_vars

\* Precede was refused for a registered first and an unknown second type, in
\* a World whose graph holds an edge.
C15_Witness ==
    /\ call.op = "Precede"
    /\ call.result = "runtime_error"
    /\ call.type \in DOMAIN systems_
    /\ call.type1 \notin DOMAIN systems_
    /\ taskflow_.edges # {}

\* The same for an unknown first and a registered second type.
C15_WitnessFirst ==
    /\ call.op = "Precede"
    /\ call.result = "runtime_error"
    /\ call.type \notin DOMAIN systems_
    /\ call.type1 \in DOMAIN systems_

\* C19: after Reset() a World::Run() executes only the systems registered
\* after the Reset: no task of a destroyed system remains in the task graph,
\* no task other than the task of a registered system is run, and a system
\* type registered again is run exactly once per Run().
C19_ResetDropsTasks ==
    /\ \A n \in Tasks : \E S \in DOMAIN systems_ : systems_[S].task = n
    /\ \A n \in 1 .. Len(executor_.state) :
          executor_.state[n] # "pending" => \E S \in DOMAIN systems_ : systems_[S].task = n
    /\ \A S \in DOMAIN systems_ :
          history.invoked[S] <= history.steps[S] + (IF executor_.pc = "idle" THEN 0 ELSE 1)

\* The ids of S in ascending order, each once.
Ascending(S) ==
    CHOOSE q \in [1 .. Cardinality(S) -> S] :
        \A i, j \in 1 .. Cardinality(S) : i < j => q[i] < q[j]

\* C27: the snapshot an entity query returned contains exactly the ids that
\* were live at the call, each once, in ascending order, and stays so while
\* entities are created and destroyed afterwards.
C27_SnapshotIsLiveSet ==
    \A t \in Threads : threads[t].snapshot = Ascending(threads[t].taken)

\* A snapshot of two entities, one of which was destroyed since.
C27_Witness ==
    \E t \in Threads :
        /\ Len(threads[t].snapshot) = 2
        /\ threads[t].snapshot[1] = 0
        /\ Live(entities_) # threads[t].taken
        /\ call.op = "DestroyEntity"
        /\ call.result = "ok"

\* A snapshot that an entity created since is not part of.
C27_WitnessCreate ==
    \E t \in Threads :
        /\ threads[t].taken # {}
        /\ \E e \in Live(entities_) : e \notin threads[t].taken
        /\ call.op = "CreateEntity"

\* The elements of entities that are in P, in the order they have in entities.
Selected(entities, P) ==
    LET Test(e) == e \in P
    IN SelectSeq(entities, Test)

\* C28 as stated: Filter returns exactly the entities of the calling snapshot
\* for which the predicate holds, in the relative order they had there.
C28_FilterKeepsOrder ==
    call.op = "Filter" => call.output = Selected(call.input, call.pred)

\* C28: Filter returns a snapshot that contains exactly the entities of the
\* calling snapshot for which the predicate holds, each once.
C28_FilterSelects ==
    call.op = "Filter" =>
        /\ {call.output[i] : i \in 1 .. Len(call.output)}
               = {call.input[i] : i \in 1 .. Len(call.input)} \cap call.pred
        /\ \A i, j \in 1 .. Len(call.output) : call.output[i] = call.output[j] => i = j

\* Filter returned two of three entities.
C28_Witness ==
    /\ call.op = "Filter"
    /\ call.result = "ok"
    /\ Len(call.input) = 3
    /\ Len(call.output) = 2

\* C29: Filter called on a named snapshot returns and leaves the calling
\* snapshot with the entities it had, in the order they had.
C29_FilterLeavesCaller ==
    call.op = "Filter const&" =>
        /\ call.result = "ok"
        /\ threads[ClientThread].snapshot = call.input

\* C30: the entities a snapshot holds after FilterInPlace(p) are the entities
\* of the snapshot Filter(p) returns for the same snapshot and predicate.
C30_InPlaceIsFilter ==
    call.op \in {"Filter", "FilterInPlace"} =>
        /\ FilterInPlaceEntities(call.input, call.pred) = FilterEntities(call.input, call.pred)
        /\ call.output = FilterEntities(call.input, call.pred)

\* FilterInPlace narrowed a snapshot of three entities to two, which are not
\* in the order they had.
C30_Witness ==
    /\ call.op = "FilterInPlace"
    /\ Len(call.input) = 3
    /\ Len(call.output) = 2
    /\ call.output # Selected(call.input, call.pred)
    /\ threads[ClientThread].snapshot = call.output

\* The tasks from which a path of edges leads to a task of X, in at most k
\* edges, and the tasks of X.
RECURSIVE Before(_, _)
Before(X, k) ==
    IF k = 0 THEN X
    ELSE Before(X \cup {e[1] : e \in {d \in taskflow_.edges : d[2] \in X}}, k - 1)

\* The tasks that precede task n, directly or through other tasks: n itself
\* is one of them when it is on a cycle of edges.
Ancestors(n) ==
    Before({e[1] : e \in {d \in taskflow_.edges : d[2] = n}}, Len(taskflow_.nodes))

\* Registered systems S and T have no precedence relation, direct or
\* transitive.
Unrelated(S, T) ==
    /\ S # T
    /\ systems_[S].task \notin Ancestors(systems_[T].task)
    /\ systems_[T].task \notin Ancestors(systems_[S].task)

RECURSIVE DeclaredBefore(_, _)
DeclaredBefore(X, k) ==
    IF k = 0 THEN X
    ELSE DeclaredBefore(X \cup {d[1] : d \in {c \in history.declared : c[2] \in X}}, k - 1)

\* No system type comes before itself by the declarations made.
Acyclic ==
    \A S \in SystemTypes :
        S \notin DeclaredBefore({d[1] : d \in {c \in history.declared : c[2] = S}},
                                Cardinality(SystemTypes))

\* World::Run() has returned and every registered system was run in it.
RunReturned ==
    /\ ~crashed
    /\ executor_.pc = "idle"
    /\ call.op = "Run"
    /\ call.result = "ok"
    /\ \A S \in DOMAIN systems_ : history.steps[S] >= 1 /\ history.invoked[S] >= history.steps[S]

\* C26: when the declared precedence graph is acyclic (and the Run of every
\* system returns, the workers being scheduled fairly), a World::Run() that
\* was called eventually returns, every registered system having run.
C26_RunTerminates ==
    (executor_.pc = "running" /\ Acyclic) ~> RunReturned

\* C21: a failure raised inside a system's Run during World::Run() does not
\* end the process: it is kept for the caller of World::Run(), who gets it
\* once the other tasks have finished.
C21_FailurePropagates ==
    [][(executor_.pc = "running" /\ call'.op = "System::Run") => ~crashed']_vars

\* C5: World::Run() returns only after every task of the step is done: when
\* it returns no task is still running or not yet started.
C5_RunWaits ==
    [][(call'.op = "Run" /\ executor_.pc = "running" /\ executor_'.pc = "idle"
            /\ ~crashed') =>
          \A n \in 1 .. Len(executor_.state) : executor_.state[n] = "done"]_vars

\* A step of three tasks, two of them ordered, has returned.
C5_Witness ==
    /\ call.op = "Run"
    /\ call.result = "ok"
    /\ executor_.pc = "idle"
    /\ history.runs = MaxRuns
    /\ Len(taskflow_.nodes) = 3
    /\ taskflow_.edges # {}

\* System type S is on a cycle of the declarations Precede was given (a
\* declaration Precede<S, S> is a cycle of one).
OnCycle(S) ==
    S \in DeclaredBefore({d[1] : d \in {c \in history.declared : c[2] = S}},
                         Cardinality(SystemTypes))

\* C36: when the declared precedence edges contain a cycle (a self edge
\* Precede<S, S> is one), a World::Run() that was called does not complete
\* the step: it does not return, and the Run of no system on the cycle is
\* started.
C36_CycleBlocksRun ==
    [][(~crashed /\ executor_.pc = "running" /\ ~Acyclic /\ ~crashed') =>
          /\ executor_'.pc = "running"
          /\ \A S \in DOMAIN systems_ :
                 OnCycle(S) => history'.invoked[S] = history.invoked[S]]_vars

====
